---- MODULE Spec2Model ----
(***************************************************************************)
(* A model of the MockMock mock server: the in-memory record store        *)
(* (DataStore), the synthetic data generator, the Express routes that     *)
(* serve the documented endpoints, and the runtime response delay.        *)
(*                                                                         *)
(* JSON values are tagged tuples, so that values of different JavaScript  *)
(* types can be held in one field and compared:                           *)
(*   <<"null">>  <<"undef">>  <<"bool", b>>  <<"num", whole, tenths>>     *)
(*   <<"str", chars>>  <<"arr", elements>>  <<"obj", <<key, value>>...>>  *)
(* Strings are sequences of one-character strings; an object keeps its    *)
(* properties in insertion order, as Object.keys / Object.entries do.     *)
(* A number is whole + tenths/10 with whole = floor(number).              *)
(***************************************************************************)
EXTENDS Integers, Sequences, FiniteSets, TLC

(***************************************************************************)
(* Bounds of the model.                                                    *)
(***************************************************************************)
\* the number of requests and console lines one run receives
MaxRequests == 2
\* the number of requests that may be waiting out their delay at once
MaxPending == 2
MaxConns == 2
MaxSignals == 2
\* the elements (tables, CDATA blocks, code blocks) of a parsed page
MaxElements == 2
\* the segments of a documented path
MaxSegments == 3
\* the literal blocks associated with one table
MaxBlocks == 2
\* the tables and literal blocks of a page of tables
MaxRegionElements == 3

(***************************************************************************)
(* JSON values.                                                            *)
(***************************************************************************)
Null == <<"null">>
Undefined == <<"undef">>
NaN == <<"nan">>
\* the number Infinity
Infinity == <<"inf">>
Bool(b) == <<"bool", b>>
Num(n) == <<"num", n, 0>>
Frac(w, t) == <<"num", w, t>>
Str(cs) == <<"str", cs>>
Arr(es) == <<"arr", es>>
Obj(ps) == <<"obj", ps>>
EmptyObj == Obj(<<>>)

Tag(v) == v[1]
IsArray(v) == Tag(v) = "arr"
\* typeof v === 'object' && v !== null
IsObjectLike(v) == Tag(v) \in {"arr", "obj"}
IsPlainObject(v) == Tag(v) = "obj"
\* JavaScript truthiness of a JSON value
Truthy(v) ==
  CASE Tag(v) = "null" -> FALSE
    [] Tag(v) = "undef" -> FALSE
    [] Tag(v) = "nan" -> FALSE
    [] Tag(v) = "bool" -> v[2]
    [] Tag(v) = "num" -> ~(v[2] = 0 /\ v[3] = 0)
    [] Tag(v) = "str" -> Len(v[2]) > 0
    [] OTHER -> TRUE

Entries(o) == o[2]
KeyIndex(o, k) ==
  IF \E i \in 1..Len(o[2]) : o[2][i][1] = k
  THEN CHOOSE i \in 1..Len(o[2]) : o[2][i][1] = k
  ELSE 0
\* k in o
HasKey(o, k) == KeyIndex(o, k) # 0
\* o[k]
GetField(o, k) ==
  LET At(i) == IF i = 0 THEN Undefined ELSE o[2][i][2]
  IN At(KeyIndex(o, k))
\* o[k] = v : an existing property keeps its place, a new one goes last
SetField(o, k, v) ==
  LET At(i) == IF i = 0 THEN Obj(Append(o[2], <<k, v>>))
               ELSE Obj([o[2] EXCEPT ![i] = <<k, v>>])
  IN At(KeyIndex(o, k))

\* the least index of a set of indices, 0 for the empty set: what
\* Array.prototype.find and findIndex pick
FirstIndex(hits) ==
  IF hits = {} THEN 0 ELSE CHOOSE i \in hits : \A j \in hits : i <= j

\* the element of a one-element set: Only({e(x) : x \in {v}}) computes v
\* once and then e(v), as a const binding does
Only(one) == CHOOSE x \in one : TRUE

RECURSIVE SpreadInto(_, _, _)
SpreadInto(acc, ps, i) ==
  IF i > Len(ps) THEN acc
  ELSE SpreadInto(SetField(acc, ps[i][1], ps[i][2]), ps, i + 1)
\* { ...a, ...b }
Spread(a, b) == SpreadInto(a, Entries(b), 1)

(***************************************************************************)
(* Characters and the String(...) / Number(...) conversions.               *)
(***************************************************************************)
DigitChars == <<"0", "1", "2", "3", "4", "5", "6", "7", "8", "9">>
IsDigit(c) == \E i \in 1..10 : DigitChars[i] = c
DigitVal(c) == (CHOOSE i \in 1..10 : DigitChars[i] = c) - 1

UpperChars ==
  <<"A", "B", "C", "D", "E", "F", "G", "H", "I", "J", "K", "L", "M", "N", "O", "P", "Q", "R", "S", "T", "U", "V", "W", "X", "Y", "Z">>
LowerChars ==
  <<"a", "b", "c", "d", "e", "f", "g", "h", "i", "j", "k", "l", "m", "n", "o", "p", "q", "r", "s", "t", "u", "v", "w", "x", "y", "z">>
\* String.prototype.toLowerCase, one character
LowerChar(c) ==
  IF \E i \in 1..Len(UpperChars) : UpperChars[i] = c
  THEN LowerChars[CHOOSE i \in 1..Len(UpperChars) : UpperChars[i] = c]
  ELSE c
ToLowerCase(cs) == [i \in 1..Len(cs) |-> LowerChar(cs[i])]

\* s.startsWith(p)
StartsWith(cs, p) == Len(cs) >= Len(p) /\ SubSeq(cs, 1, Len(p)) = p
\* s.endsWith(p)
EndsWith(cs, p) == Len(cs) >= Len(p) /\ SubSeq(cs, Len(cs) - Len(p) + 1, Len(cs)) = p
\* s.includes(p)
Includes(cs, p) ==
  \E i \in 1..(Len(cs) - Len(p) + 1) : SubSeq(cs, i, i + Len(p) - 1) = p

RECURSIVE NatToChars(_)
NatToChars(n) ==
  IF n < 10 THEN <<DigitChars[n + 1]>>
  ELSE NatToChars(n \div 10) \o <<DigitChars[(n % 10) + 1]>>

RECURSIVE CharsToNat(_)
CharsToNat(cs) ==
  IF Len(cs) = 0 THEN 0
  ELSE 10 * CharsToNat(SubSeq(cs, 1, Len(cs) - 1)) + DigitVal(cs[Len(cs)])

AllDigits(cs) == \A i \in 1..Len(cs) : IsDigit(cs[i])

\* String(number): the shortest decimal form
NumToChars(n) ==
  IF n[3] = 0
  THEN (IF n[2] < 0 THEN <<"-">> \o NatToChars(0 - n[2]) ELSE NatToChars(n[2]))
  ELSE (IF n[2] < 0
        THEN <<"-">> \o NatToChars(0 - n[2] - 1) \o <<".">> \o NatToChars(10 - n[3])
        ELSE NatToChars(n[2]) \o <<".">> \o NatToChars(n[3]))

RECURSIVE JoinStrings(_, _)
RECURSIVE ToStringChars(_)
\* String(v)
ToStringChars(v) ==
  CASE Tag(v) = "null" -> <<"n", "u", "l", "l">>
    [] Tag(v) = "undef" -> <<"u", "n", "d", "e", "f", "i", "n", "e", "d">>
    [] Tag(v) = "nan" -> <<"N", "a", "N">>
    [] Tag(v) = "inf" -> <<"I", "n", "f", "i", "n", "i", "t", "y">>
    [] Tag(v) = "bool" -> IF v[2] THEN <<"t", "r", "u", "e">> ELSE <<"f", "a", "l", "s", "e">>
    [] Tag(v) = "num" -> NumToChars(v)
    [] Tag(v) = "str" -> v[2]
    [] Tag(v) = "arr" -> JoinStrings(v[2], 1)
    [] OTHER -> <<"[", "o", "b", "j", "e", "c", "t", " ", "O", "b", "j", "e", "c", "t", "]">>
\* Array.prototype.join(","): null and undefined elements give ""
JoinStrings(es, i) ==
  IF i > Len(es) THEN <<>>
  ELSE (IF Tag(es[i]) \in {"null", "undef"} THEN <<>> ELSE ToStringChars(es[i]))
       \o (IF i < Len(es) THEN <<",">> ELSE <<>>)
       \o JoinStrings(es, i + 1)

\* Number(string), for strings over letters, digits and punctuation without
\* white space, sign, point or exponent: "" is 0, digits are their value,
\* "Infinity" is Infinity
StringToNumber(cs) ==
  IF AllDigits(cs) THEN Num(CharsToNat(cs))
  ELSE IF cs = <<"I", "n", "f", "i", "n", "i", "t", "y">> THEN Infinity
  ELSE NaN
\* Number(v)
ToNumber(v) ==
  CASE Tag(v) = "null" -> Num(0)
    [] Tag(v) = "bool" -> IF v[2] THEN Num(1) ELSE Num(0)
    [] Tag(v) = "num" -> v
    [] Tag(v) = "inf" -> v
    [] Tag(v) = "str" -> StringToNumber(v[2])
    [] Tag(v) = "arr" -> StringToNumber(ToStringChars(v))
    [] OTHER -> NaN
IsNaN(n) == Tag(n) = "nan"
\* a < b on numbers
NumLess(a, b) ==
  IF Tag(a) = "inf" THEN FALSE
  ELSE IF Tag(b) = "inf" THEN TRUE
  ELSE a[2] < b[2] \/ (a[2] = b[2] /\ a[3] < b[3])
\* Math.max(a, b)
MathMax(a, b) == IF NumLess(a, b) THEN b ELSE a
\* n + 1; Infinity + 1 is Infinity
NumPlusOne(n) == IF Tag(n) = "inf" THEN n ELSE <<"num", n[2] + 1, n[3]>>

(***************************************************************************)
(* The faker random source: a generator state that every draw advances.    *)
(***************************************************************************)
\* the generator state after one draw
NextRng(r) == (5 * r + 3) % 16
\* faker.number.int({ min, max })
RandInt(r, min, max) == min + (r % (max - min + 1))
\* faker.datatype.boolean()
RandBool(r) == (r % 2) = 1
\* one faker word; kind tells the faker call apart
RandWord(r, kind) == <<kind, DigitChars[(r % 2) + 1]>>

(***************************************************************************)
(* Key fragments that generateFakeDataForField looks for.                  *)
(***************************************************************************)
K_id == <<"i", "d">>
K_title == <<"t", "i", "t", "l", "e">>
K_name == <<"n", "a", "m", "e">>
K_company == <<"c", "o", "m", "p", "a", "n", "y">>
K_store == <<"s", "t", "o", "r", "e">>
K_category == <<"c", "a", "t", "e", "g", "o", "r", "y">>
K_product == <<"p", "r", "o", "d", "u", "c", "t">>
K_email == <<"e", "m", "a", "i", "l">>
K_url == <<"u", "r", "l">>
K_link == <<"l", "i", "n", "k">>
K_image == <<"i", "m", "a", "g", "e">>
K_img == <<"i", "m", "g">>
K_avatar == <<"a", "v", "a", "t", "a", "r">>
K_description == <<"d", "e", "s", "c", "r", "i", "p", "t", "i", "o", "n">>
K_desc == <<"d", "e", "s", "c">>
K_en == <<"e", "n">>
K_english == <<"e", "n", "g", "l", "i", "s", "h">>
K_ar == <<"a", "r">>
K_arabic == <<"a", "r", "a", "b", "i", "c">>
K_count == <<"c", "o", "u", "n", "t">>
K_total == <<"t", "o", "t", "a", "l">>
K_quantity == <<"q", "u", "a", "n", "t", "i", "t", "y">>
K_price == <<"p", "r", "i", "c", "e">>
K_cost == <<"c", "o", "s", "t">>
K_amount == <<"a", "m", "o", "u", "n", "t">>
K_priority == <<"p", "r", "i", "o", "r", "i", "t", "y">>
K_order == <<"o", "r", "d", "e", "r">>
K_error == <<"e", "r", "r", "o", "r">>
K_failed == <<"f", "a", "i", "l", "e", "d">>

(***************************************************************************)
(* The data generator.  Every operator takes the generator state r and     *)
(* returns the generated value v together with the state after its draws.  *)
(***************************************************************************)
\* generatePrimitiveValue
generatePrimitiveValue(value, r) ==
  CASE Tag(value) = "str" -> [v |-> Str(RandWord(r, "w")), r |-> NextRng(r)]
    [] Tag(value) = "num" -> [v |-> Num(RandInt(r, 1, 100)), r |-> NextRng(r)]
    [] Tag(value) = "bool" -> [v |-> Bool(RandBool(r)), r |-> NextRng(r)]
    [] OTHER -> [v |-> value, r |-> r]

\* the string branch of generateFakeDataForField
generateStringField(lowerKey, r) ==
  CASE Includes(lowerKey, K_id) /\ ~Includes(lowerKey, K_title) ->
         [v |-> Num(RandInt(r, 1, 1000)), r |-> NextRng(r)]
    [] Includes(lowerKey, K_name) \/ Includes(lowerKey, K_title) ->
         (CASE Includes(lowerKey, K_company) \/ Includes(lowerKey, K_store) ->
                 [v |-> Str(RandWord(r, "C")), r |-> NextRng(r)]
            [] Includes(lowerKey, K_category) ->
                 [v |-> Str(RandWord(r, "D")), r |-> NextRng(r)]
            [] Includes(lowerKey, K_product) ->
                 [v |-> Str(RandWord(r, "P")), r |-> NextRng(r)]
            [] OTHER ->
                 [v |-> Str(RandWord(r, "w") \o <<" ">> \o RandWord(NextRng(r), "w")),
                  r |-> NextRng(NextRng(r))])
    [] Includes(lowerKey, K_email) ->
         [v |-> Str(RandWord(r, "m") \o <<"@">>), r |-> NextRng(r)]
    [] Includes(lowerKey, K_url) \/ Includes(lowerKey, K_link) ->
         [v |-> Str(<<"h", ":">> \o RandWord(r, "u")), r |-> NextRng(r)]
    [] Includes(lowerKey, K_image) \/ Includes(lowerKey, K_img)
         \/ Includes(lowerKey, K_avatar) ->
         [v |-> Str(<<"h", ":">> \o RandWord(r, "g")), r |-> NextRng(r)]
    [] Includes(lowerKey, K_description) \/ Includes(lowerKey, K_desc) ->
         [v |-> Str(RandWord(r, "s") \o <<".">>), r |-> NextRng(r)]
    [] lowerKey = K_en \/ lowerKey = K_english ->
         [v |-> Str(RandWord(r, "w") \o <<" ">> \o RandWord(NextRng(r), "w")),
          r |-> NextRng(NextRng(r))]
    [] lowerKey = K_ar \/ lowerKey = K_arabic ->
         [v |-> Str(<<"a", "r", "a", "b", "i">>), r |-> r]
    [] OTHER -> [v |-> Str(RandWord(r, "w")), r |-> NextRng(r)]

\* the number branch of generateFakeDataForField
generateNumberField(lowerKey, r) ==
  CASE Includes(lowerKey, K_count) \/ Includes(lowerKey, K_total)
         \/ Includes(lowerKey, K_quantity) ->
         [v |-> Num(RandInt(r, 0, 100)), r |-> NextRng(r)]
    [] Includes(lowerKey, K_price) \/ Includes(lowerKey, K_cost)
         \/ Includes(lowerKey, K_amount) ->
         [v |-> Frac(RandInt(r, 0, 999), 5 * (r % 2)), r |-> NextRng(r)]
    [] Includes(lowerKey, K_priority) \/ Includes(lowerKey, K_order) ->
         [v |-> Num(RandInt(r, 1, 10)), r |-> NextRng(r)]
    [] Includes(lowerKey, K_id) ->
         [v |-> Num(RandInt(r, 1, 1000)), r |-> NextRng(r)]
    [] OTHER -> [v |-> Num(RandInt(r, 1, 100)), r |-> NextRng(r)]

\* the boolean branch of generateFakeDataForField
generateBooleanField(lowerKey, r) ==
  IF Includes(lowerKey, K_error) \/ Includes(lowerKey, K_failed)
  THEN [v |-> Bool(FALSE), r |-> r]
  ELSE [v |-> Bool(RandBool(r)), r |-> NextRng(r)]

RECURSIVE generateFakeData(_, _)
RECURSIVE generateFakeDataForField(_, _, _)
RECURSIVE generateEntries(_, _, _, _)
RECURSIVE generateItems(_, _, _, _)

\* generateFakeData drawing 1 to 3 items for an array
generateFakeDataOneToThree(template, r) ==
  CASE Tag(template) \in {"null", "undef"} -> [v |-> template, r |-> r]
    [] Tag(template) = "arr" ->
         IF Len(template[2]) = 0
         THEN [v |-> Arr(<<>>), r |-> r]
         ELSE generateItems(template[2][1], RandInt(r, 1, 3), NextRng(r), <<>>)
    [] Tag(template) = "obj" -> generateEntries(template[2], 1, r, <<>>)
    [] OTHER -> generatePrimitiveValue(template, r)

\* generateFakeData
generateFakeData(template, r) ==
  CASE Tag(template) \in {"null", "undef"} -> [v |-> template, r |-> r]
    [] Tag(template) = "arr" ->
         IF Len(template[2]) = 0
         THEN [v |-> Arr(<<>>), r |-> r]
         ELSE generateItems(template[2][1], RandInt(r, 2, 3), NextRng(r), <<>>)
    [] Tag(template) = "obj" -> generateEntries(template[2], 1, r, <<>>)
    [] OTHER -> generatePrimitiveValue(template, r)

\* Array.from({ length: itemCount }, () => generateFakeData(template[0]))
generateItems(first, n, r, acc) ==
  IF n = 0 THEN [v |-> Arr(acc), r |-> r]
  ELSE Only({generateItems(first, n - 1, g.r, Append(acc, g.v)) :
               g \in {generateFakeData(first, r)}})

\* for (const [key, value] of Object.entries(template)) result[key] = ...
generateEntries(ps, i, r, acc) ==
  IF i > Len(ps) THEN [v |-> Obj(acc), r |-> r]
  ELSE Only({generateEntries(ps, i + 1, g.r, Append(acc, <<ps[i][1], g.v>>)) :
               g \in {generateFakeDataForField(ps[i][1], ps[i][2], r)}})

\* generateFakeDataForField
generateFakeDataForField(key, value, r) ==
  LET ByType(lowerKey) ==
        CASE IsObjectLike(value) -> generateFakeData(value, r)
          [] Tag(value) = "str" -> generateStringField(lowerKey, r)
          [] Tag(value) = "num" -> generateNumberField(lowerKey, r)
          [] Tag(value) = "bool" -> generateBooleanField(lowerKey, r)
          [] OTHER -> [v |-> value, r |-> r]
  IN ByType(ToLowerCase(key))

(***************************************************************************)
(* Paths.                                                                  *)
(***************************************************************************)
RECURSIVE SplitFrom(_, _, _, _)
SplitFrom(cs, sep, i, cur) ==
  IF i > Len(cs) THEN <<cur>>
  ELSE IF cs[i] = sep THEN <<cur>> \o SplitFrom(cs, sep, i + 1, <<>>)
  ELSE SplitFrom(cs, sep, i + 1, Append(cur, cs[i]))
\* s.split(sep) for a one-character separator
Split(cs, sep) == SplitFrom(cs, sep, 1, <<>>)

\* path.replace(/^\//, '')
StripLeadingSlash(path) ==
  IF Len(path) > 0 /\ path[1] = "/" THEN SubSeq(path, 2, Len(path)) ELSE path

IsPlaceholderSegment(seg) == StartsWith(seg, <<":">>) \/ StartsWith(seg, <<"{">>)

\* the first segment that is no placeholder instead of the last
extractCollectionKeyFirst(path) ==
  LET LastPlain(segments) ==
        LET Pick(plain) ==
              IF plain = {} THEN path
              ELSE segments[CHOOSE i \in plain : \A j \in plain : i <= j]
        IN Pick({i \in 1..Len(segments) : ~IsPlaceholderSegment(segments[i])})
  IN LastPlain(Split(StripLeadingSlash(path), "/"))

\* extractCollectionKey
extractCollectionKey(path) ==
  LET LastPlain(segments) ==
        LET Pick(plain) ==
              IF plain = {} THEN path
              ELSE segments[CHOOSE i \in plain : \A j \in plain : j <= i]
        IN Pick({i \in 1..Len(segments) : ~IsPlaceholderSegment(segments[i])})
  IN LastPlain(Split(StripLeadingSlash(path), "/"))

(***************************************************************************)
(* The record store (DataStore).  A collection is a record                 *)
(*   [items, template, wrapper]; wrapper is <<>> when absent and           *)
(*   <<[shell, arrayKey]>> when present.  The store maps keys to           *)
(*   collections.                                                          *)
(***************************************************************************)
NoWrapper == <<>>
NoArray == <<>>

\* the first property (in declaration order) holding a non-empty array
FirstArrayProperty(obj) ==
  FirstIndex({i \in 1..Len(obj[2]) : IsArray(obj[2][i][2]) /\ Len(obj[2][i][2][2]) > 0})

\* shell: every property of obj but the one at index k
ShellWithout(obj, k) ==
  Obj(SubSeq(obj[2], 1, k - 1) \o SubSeq(obj[2], k + 1, Len(obj[2])))

\* findArrayInResponse: <<>> for null, else <<[templateItem, wrapper]>>
findArrayInResponse(response) ==
  LET Wrapped(k) ==
        IF k = 0 THEN NoArray
        ELSE <<[templateItem |-> response[2][k][2][2][1],
                wrapper |-> <<[shell |-> ShellWithout(response, k),
                               arrayKey |-> response[2][k][1]]>>]>>
  IN IF IsArray(response) /\ Len(response[2]) > 0
     THEN <<[templateItem |-> response[2][1], wrapper |-> NoWrapper]>>
     ELSE IF IsPlainObject(response)
     THEN Wrapped(FirstArrayProperty(response))
     ELSE NoArray

\* findIdField: Str(key), or Null when the record has no identifier field
findIdField(item) ==
  LET KeyAt(i) == IF i = 0 THEN Null ELSE Str(item[2][i][1])
  IN IF HasKey(item, K_id) THEN Str(K_id)
     ELSE KeyAt(FirstIndex({i \in 1..Len(item[2]) :
                              EndsWith(ToLowerCase(item[2][i][1]), K_id)}))

\* findIdField(item) ?? 'id'
IdFieldOrDefault(item) ==
  LET OrDefault(field) == IF field = Null THEN K_id ELSE field[2]
  IN OrDefault(findIdField(item))

\* matchesId; id is the characters of the path parameter
matchesId(item, id) ==
  LET Matches(field) ==
        /\ field # Null
        /\ ToStringChars(GetField(item, field[2])) = ToStringChars(Str(id))
  IN Matches(findIdField(item))

\* coerceId
coerceId(id) ==
  LET OrSelf(n) == IF IsNaN(n) THEN Str(id) ELSE n
  IN OrSelf(ToNumber(Str(id)))

\* items.findIndex(item => matchesId(item, id)); 0 stands for -1
FindIndex(items, id) ==
  FirstIndex({i \in 1..Len(items) : matchesId(items[i], id)})

\* 'id' in item raises a TypeError when item is a primitive or null
InOperatorThrows(item) == ~IsObjectLike(item)

RECURSIVE SeedItems(_, _, _, _)
\* Array.from({ length: count }, (_, i) => { ... item[idField] = i + 1 ... }):
\* the items numbered first..last, generated in order from the generator
\* state r; the range is produced by halves, the second half from the state
\* the first half leaves
SeedItems(templateItem, first, last, r) ==
  IF first > last THEN [items |-> <<>>, r |-> r, threw |-> FALSE]
  ELSE IF first = last
  THEN Only({IF InOperatorThrows(g.v)
             THEN [items |-> <<>>, r |-> g.r, threw |-> TRUE]
             ELSE [items |-> <<SetField(g.v, IdFieldOrDefault(g.v), Num(first))>>,
                   r |-> g.r, threw |-> FALSE] :
               g \in {generateFakeData(templateItem, r)}})
  ELSE Only({IF head.threw THEN head
             ELSE Only({[items |-> head.items \o tail.items,
                         r |-> tail.r, threw |-> tail.threw] :
                          tail \in {SeedItems(templateItem, (first + last) \div 2 + 1,
                                              last, head.r)}}) :
               head \in {SeedItems(templateItem, first, (first + last) \div 2, r)}})

SeedMin == 15
SeedMax == 30

\* initFromSchema without its check that the key is already seeded
InitFromEndpointReseeding(st, r, endpoint) ==
  LET Set(key, arrayInfo, seeded) ==
        IF seeded.threw
        THEN [store |-> st, r |-> seeded.r, threw |-> TRUE]
        ELSE [store |-> [k \in DOMAIN st \cup {key} |->
                          IF k = key
                          THEN [items |-> seeded.items,
                                template |-> arrayInfo[1].templateItem,
                                wrapper |-> arrayInfo[1].wrapper]
                          ELSE st[k]],
              r |-> seeded.r, threw |-> FALSE]
      Seed(key, arrayInfo) ==
        IF endpoint.method # "GET" \/ arrayInfo = NoArray
        THEN [store |-> st, r |-> r, threw |-> FALSE]
        ELSE Set(key, arrayInfo,
                 SeedItems(arrayInfo[1].templateItem, 1, RandInt(r, SeedMin, SeedMax),
                           NextRng(r)))
  IN Seed(extractCollectionKey(endpoint.path), findArrayInResponse(endpoint.response))

\* one iteration of the loop of initFromSchema over the endpoint
InitFromEndpoint(st, r, endpoint) ==
  LET Set(key, arrayInfo, seeded) ==
        IF seeded.threw
        THEN [store |-> st, r |-> seeded.r, threw |-> TRUE]
        ELSE [store |-> [k \in DOMAIN st \cup {key} |->
                          IF k = key
                          THEN [items |-> seeded.items,
                                template |-> arrayInfo[1].templateItem,
                                wrapper |-> arrayInfo[1].wrapper]
                          ELSE st[k]],
              r |-> seeded.r, threw |-> FALSE]
      Seed(key, arrayInfo) ==
        IF endpoint.method # "GET" \/ key \in DOMAIN st \/ arrayInfo = NoArray
        THEN [store |-> st, r |-> r, threw |-> FALSE]
        ELSE Set(key, arrayInfo,
                 SeedItems(arrayInfo[1].templateItem, 1, RandInt(r, SeedMin, SeedMax),
                           NextRng(r)))
  IN Seed(extractCollectionKey(endpoint.path), findArrayInResponse(endpoint.response))

\* hasCollection
hasCollection(st, key) == key \in DOMAIN st

\* getCollection that returns the bare record array for every collection
getCollectionBare(st, key) ==
  IF key \notin DOMAIN st THEN Null ELSE Arr(st[key].items)

\* getCollection
getCollection(st, key) ==
  IF key \notin DOMAIN st THEN Null
  ELSE IF st[key].wrapper # NoWrapper
  THEN SetField(st[key].wrapper[1].shell, st[key].wrapper[1].arrayKey, Arr(st[key].items))
  ELSE Arr(st[key].items)

\* getItem
getItem(st, key, id) ==
  LET At(idx) == IF idx = 0 THEN Null ELSE st[key].items[idx]
  IN IF key \notin DOMAIN st THEN Null
     ELSE At(FindIndex(st[key].items, id))

RECURSIVE MaxIdFrom(_, _, _)
\* col.items.reduce((max, item) => Math.max(max, isNaN(v) ? 0 : v), 0) over
\* items[first..last], the maximum taken by halves
MaxIdFrom(items, first, last) ==
  LET V(f) == IF f # Null THEN ToNumber(GetField(items[first], f[2])) ELSE Num(0)
      OrZero(v) == IF IsNaN(v) THEN Num(0) ELSE v
  IN IF first > last THEN Num(0)
     ELSE IF first = last
     THEN MathMax(Num(0), OrZero(V(findIdField(items[first]))))
     ELSE Only({MathMax(head, tail) :
                  head \in {MaxIdFrom(items, first, (first + last) \div 2)},
                  tail \in {MaxIdFrom(items, (first + last) \div 2 + 1, last)}})

\* addItem numbering the new record by the length of the collection
addItemByLength(st, r, key, body) ==
  LET Create(newItem) ==
        [store |-> [k \in DOMAIN st \cup {key} |->
                     IF k = key
                     THEN [items |-> <<newItem>>, template |-> body, wrapper |-> NoWrapper]
                     ELSE st[k]],
         r |-> r, item |-> newItem]
      Push(newItem, r2) ==
        [store |-> [st EXCEPT ![key].items = Append(@, newItem)],
         r |-> r2, item |-> newItem]
      Number(merged, r2) ==
        Push(SetField(merged, IdFieldOrDefault(merged), Num(Len(st[key].items) + 1)), r2)
      Merge(g) == Number(Spread(g.v, body), g.r)
  IN IF key \notin DOMAIN st
     THEN Create(Spread(Obj(<<<<K_id, Num(1)>>>>), body))
     ELSE Merge(generateFakeData(st[key].template, r))

\* addItem: the store, the generator state and the returned record
addItem(st, r, key, body) ==
  LET Create(newItem) ==
        [store |-> [k \in DOMAIN st \cup {key} |->
                     IF k = key
                     THEN [items |-> <<newItem>>, template |-> body, wrapper |-> NoWrapper]
                     ELSE st[k]],
         r |-> r, item |-> newItem]
      Push(newItem, r2) ==
        [store |-> [st EXCEPT ![key].items = Append(@, newItem)],
         r |-> r2, item |-> newItem]
      Number(merged, r2) ==
        Push(SetField(merged, IdFieldOrDefault(merged), NumPlusOne(MaxIdFrom(st[key].items, 1, Len(st[key].items)))), r2)
      Merge(g) == Number(Spread(g.v, body), g.r)
  IN IF key \notin DOMAIN st
     THEN Create(Spread(Obj(<<<<K_id, Num(1)>>>>), body))
     ELSE Merge(generateFakeData(st[key].template, r))

\* updateItem: the store and the returned record (Null when not found)
updateItem(st, key, id, updates) ==
  LET Put(idx, updated) ==
        [store |-> [st EXCEPT ![key].items[idx] = updated], item |-> updated]
      Restore(idx, merged) ==
        Put(idx, SetField(merged, IdFieldOrDefault(merged), coerceId(id)))
      At(idx) ==
        IF idx = 0 THEN [store |-> st, item |-> Null]
        ELSE Restore(idx, Spread(st[key].items[idx], updates))
  IN IF key \notin DOMAIN st THEN [store |-> st, item |-> Null]
     ELSE At(FindIndex(st[key].items, id))

\* deleteItem whose splice has no delete count: it drops the rest too
deleteItemSplicingRest(st, key, id) ==
  LET At(idx) ==
        IF idx = 0 THEN [store |-> st, deleted |-> FALSE]
        ELSE [store |-> [st EXCEPT ![key].items =
                           SubSeq(st[key].items, 1, idx - 1)],
              deleted |-> TRUE]
  IN IF key \notin DOMAIN st THEN [store |-> st, deleted |-> FALSE]
     ELSE At(FindIndex(st[key].items, id))

\* deleteItem: the store and the boolean result
deleteItem(st, key, id) ==
  LET At(idx) ==
        IF idx = 0 THEN [store |-> st, deleted |-> FALSE]
        ELSE [store |-> [st EXCEPT ![key].items =
                           SubSeq(st[key].items, 1, idx - 1)
                               \o SubSeq(st[key].items, idx + 1, Len(st[key].items))],
              deleted |-> TRUE]
  IN IF key \notin DOMAIN st THEN [store |-> st, deleted |-> FALSE]
     ELSE At(FindIndex(st[key].items, id))

(***************************************************************************)
(* The mock server: routes and handlers.                                   *)
(***************************************************************************)
RECURSIVE ConvertFrom(_, _)
\* path.replace(/\{([^}]+)\}/g, ':$1'), scanning from position i
ConvertFrom(path, i) ==
  LET Named(j) == <<":">> \o SubSeq(path, i + 1, j - 1) \o ConvertFrom(path, j + 1)
      Convert(closers) ==
        IF path[i] = "{" /\ closers # {}
        THEN Named(CHOOSE c \in closers : TRUE)
        ELSE <<path[i]>> \o ConvertFrom(path, i + 1)
  IN IF i > Len(path) THEN <<>>
     ELSE Convert({j \in (i + 2)..Len(path) :
                     path[j] = "}" /\ \A m \in (i + 1)..(j - 1) : path[m] # "}"})
\* convertPathParams
convertPathParams(path) == ConvertFrom(path, 1)

RECURSIVE ExampleFrom(_, _)
\* expressPath.replace(/:([^\/]+)/g, (_, param) => `{${param}}`), scanning
\* from position i: a colon takes every character up to the next slash
ExampleFrom(expressPath, i) ==
  LET Braced(stop) ==
        <<"{">> \o SubSeq(expressPath, i + 1, stop - 1) \o <<"}">>
          \o ExampleFrom(expressPath, stop)
      Stop(slashes) ==
        IF slashes = {} THEN Len(expressPath) + 1 ELSE FirstIndex(slashes)
      Replace(stop) ==
        IF expressPath[i] = ":" /\ stop > i + 1 THEN Braced(stop)
        ELSE <<expressPath[i]>> \o ExampleFrom(expressPath, i + 1)
  IN IF i > Len(expressPath) THEN <<>>
     ELSE Replace(Stop({j \in (i + 1)..Len(expressPath) : expressPath[j] = "/"}))
\* examplePath of GET /health
ExamplePath(expressPath) == ExampleFrom(expressPath, 1)

IsParamSegment(seg) == Len(seg) > 1 /\ seg[1] = ":"

\* Express matches a request path against a route path segment by segment;
\* a :name segment takes any non-empty segment
RouteMatches(expressPath, reqPath) ==
  LET Segments(rs, qs) ==
        /\ Len(rs) = Len(qs)
        /\ \A i \in 1..Len(rs) :
             IF IsParamSegment(rs[i]) THEN Len(qs[i]) > 0 ELSE rs[i] = qs[i]
  IN Segments(Split(expressPath, "/"), Split(reqPath, "/"))

\* req.params as an object, in the order of the route's parameters
RouteParams(expressPath, reqPath) ==
  LET Params(rs, qs) ==
        LET F[i \in 0..Len(rs)] ==
              IF i = 0 THEN EmptyObj
              ELSE IF IsParamSegment(rs[i])
              THEN SetField(F[i - 1], SubSeq(rs[i], 2, Len(rs[i])), Str(qs[i]))
              ELSE F[i - 1]
        IN F[Len(rs)]
  IN Params(Split(expressPath, "/"), Split(reqPath, "/"))

\* paramNames.find(p => p.toLowerCase() === 'id') ?? paramNames[0], then its
\* value: Str(chars), or Null when the route has no parameter
IdValue(params) ==
  LET Value(ps, idParam) ==
        IF Len(ps) = 0 THEN Null
        ELSE IF idParam # 0 THEN ps[idParam][2]
        ELSE ps[1][2]
  IN Value(params[2],
           FirstIndex({i \in 1..Len(params[2]) : ToLowerCase(params[2][i][1]) = K_id}))

NotFoundBody == Obj(<<<<K_error, Str(<<"N", "o", "t", " ", "f", "o", "u", "n", "d">>)>>>>)

DefaultStatus == 200

\* const { status = 200 } = endpoint
EndpointStatus(endpoint) ==
  IF endpoint.status = Undefined THEN DefaultStatus ELSE endpoint.status[2]

\* req.body && typeof req.body === 'object' ? req.body : {}
BodyObject(body) == IF Truthy(body) /\ IsObjectLike(body) THEN body ELSE EmptyObj

\* the GET case of a handler that keeps the value it generates on a miss
HandleGetKeepingMiss(endpoint, st, r, req) ==
  LET Generated(g) ==
        IF hasCollection(st, extractCollectionKey(endpoint.path)) /\ IsPlainObject(g.v)
        THEN [store |-> [st EXCEPT ![extractCollectionKey(endpoint.path)].items =
                           Append(@, g.v)],
              r |-> g.r, status |-> EndpointStatus(endpoint), body |-> g.v]
        ELSE [store |-> st, r |-> g.r, status |-> EndpointStatus(endpoint), body |-> g.v]
      Found(status, item) ==
        IF item # Null
        THEN [store |-> st, r |-> r, status |-> status, body |-> item]
        ELSE Generated(generateFakeData(endpoint.response, r))
      Get(status, collectionKey, hasPathParams, idValue) ==
        IF ~hasPathParams /\ hasCollection(st, collectionKey)
        THEN [store |-> st, r |-> r, status |-> status,
              body |-> getCollection(st, collectionKey)]
        ELSE IF hasPathParams /\ Truthy(idValue)
        THEN Found(status, getItem(st, collectionKey, idValue[2]))
        ELSE Generated(generateFakeData(endpoint.response, r))
      Routed(expressPath) ==
        Get(EndpointStatus(endpoint), extractCollectionKey(endpoint.path),
            Includes(expressPath, <<":">>), IdValue(RouteParams(expressPath, req.path)))
  IN Routed(convertPathParams(endpoint.path))

\* the GET case of the handler
HandleGet(endpoint, st, r, req) ==
  LET Generated(g) ==
        [store |-> st, r |-> g.r, status |-> EndpointStatus(endpoint), body |-> g.v]
      Found(status, item) ==
        IF item # Null
        THEN [store |-> st, r |-> r, status |-> status, body |-> item]
        ELSE Generated(generateFakeData(endpoint.response, r))
      Get(status, collectionKey, hasPathParams, idValue) ==
        IF ~hasPathParams /\ hasCollection(st, collectionKey)
        THEN [store |-> st, r |-> r, status |-> status,
              body |-> getCollection(st, collectionKey)]
        ELSE IF hasPathParams /\ Truthy(idValue)
        THEN Found(status, getItem(st, collectionKey, idValue[2]))
        ELSE Generated(generateFakeData(endpoint.response, r))
      Routed(expressPath) ==
        Get(EndpointStatus(endpoint), extractCollectionKey(endpoint.path),
            Includes(expressPath, <<":">>), IdValue(RouteParams(expressPath, req.path)))
  IN Routed(convertPathParams(endpoint.path))

\* the POST case of the handler
HandlePost(endpoint, st, r, req) ==
  LET Created(added) ==
        [store |-> added.store, r |-> added.r,
         status |-> EndpointStatus(endpoint), body |-> added.item]
  IN Created(addItem(st, r, extractCollectionKey(endpoint.path), BodyObject(req.body)))

\* the PUT / PATCH case of the handler
HandlePut(endpoint, st, r, req) ==
  LET Generated(g) ==
        [store |-> st, r |-> g.r, status |-> EndpointStatus(endpoint), body |-> g.v]
      Updated(u) ==
        IF u.item # Null
        THEN [store |-> u.store, r |-> r,
              status |-> EndpointStatus(endpoint), body |-> u.item]
        ELSE [store |-> u.store, r |-> r, status |-> 404, body |-> NotFoundBody]
      Put(idValue) ==
        IF Truthy(idValue)
        THEN Updated(updateItem(st, extractCollectionKey(endpoint.path), idValue[2],
                                BodyObject(req.body)))
        ELSE Generated(generateFakeData(endpoint.response, r))
  IN Put(IdValue(RouteParams(convertPathParams(endpoint.path), req.path)))

\* the DELETE case of the handler
HandleDelete(endpoint, st, r, req) ==
  LET Generated(g) ==
        [store |-> st, r |-> g.r, status |-> EndpointStatus(endpoint), body |-> g.v]
      Deleted(d) ==
        IF d.deleted
        THEN [store |-> d.store, r |-> r, status |-> 204, body |-> Undefined]
        ELSE [store |-> d.store, r |-> r, status |-> 404, body |-> NotFoundBody]
      Delete(idValue) ==
        IF Truthy(idValue)
        THEN Deleted(deleteItem(st, extractCollectionKey(endpoint.path), idValue[2]))
        ELSE Generated(generateFakeData(endpoint.response, r))
  IN Delete(IdValue(RouteParams(convertPathParams(endpoint.path), req.path)))

\* the handler of registerEndpoint, after its delay
Handler(endpoint, st, r, req) ==
  CASE endpoint.method = "GET" -> HandleGet(endpoint, st, r, req)
    [] endpoint.method = "POST" -> HandlePost(endpoint, st, r, req)
    [] endpoint.method \in {"PUT", "PATCH"} -> HandlePut(endpoint, st, r, req)
    [] endpoint.method = "DELETE" -> HandleDelete(endpoint, st, r, req)

\* the routes that answer a request: the endpoints of the schema with the
\* request's method whose converted path matches it
MatchingRoutes(sch, req) ==
  {i \in 1..Len(sch) : sch[i].method = req.method
                         /\ RouteMatches(convertPathParams(sch[i].path), req.path)}

\* a router in which a later registration replaces an earlier one: the
\* last matching route answers
DispatchLast(sch, req) ==
  LET Last(routes) ==
        IF routes = {} THEN 0 ELSE CHOOSE i \in routes : \A j \in routes : j <= i
  IN Last(MatchingRoutes(sch, req))

\* Express walks its stack in registration order and the handlers never call
\* next(): the first matching route answers; 0 when none matches
Dispatch(sch, req) == FirstIndex(MatchingRoutes(sch, req))

(***************************************************************************)
(* The final middleware: the fallback proxy or the 404 answer.             *)
(***************************************************************************)
RECURSIVE StripTrailingSlashes(_)
\* fallbackUrl.replace(/\/+$/, '')
StripTrailingSlashes(url) ==
  IF Len(url) > 0 /\ url[Len(url)] = "/"
  THEN StripTrailingSlashes(SubSeq(url, 1, Len(url) - 1))
  ELSE url

\* new URL(baseUrl) accepts baseUrl: it has a scheme before "://"
UrlParses(baseUrl) ==
  \E i \in 2..(Len(baseUrl) - 2) : SubSeq(baseUrl, i, i + 2) = <<":", "/", "/">>

K_target == <<"t", "a", "r", "g", "e", "t">>
K_details == <<"d", "e", "t", "a", "i", "l", "s">>
EndpointNotFoundBody == Obj(<<<<K_error, Str(<<"E", "n", "d", "p", "o", "i", "n", "t", " ", "n", "o", "t", " ", "f", "o", "u", "n", "d">>)>>>>)
FallbackUnavailable == Str(<<"F", "a", "l", "l", "b", "a", "c", "k", " ", "s", "e", "r", "v", "e", "r", " ", "u", "n", "a", "v", "a", "i", "l", "a", "b", "l", "e">>)

\* `${baseUrl}${req.originalUrl}`
TargetUrl(fallback, req) == StripTrailingSlashes(fallback[2]) \o req.path

\* a final middleware that answers 404 itself when the upstream call fails
FallbackMiddlewareHidingFailure(fallback, req, upstream) ==
  LET Proxy(targetUrl) ==
        IF upstream.failed \/ ~UrlParses(StripTrailingSlashes(fallback[2]))
        THEN [status |-> 404, body |-> EndpointNotFoundBody]
        ELSE [status |-> upstream.status, body |-> upstream.body]
  IN IF Truthy(fallback)
     THEN Proxy(TargetUrl(fallback, req))
     ELSE [status |-> 404, body |-> EndpointNotFoundBody]

\* app.use(async (req, res) => ...): the answer to a request that reached
\* the end of the stack, given what the upstream call does
FallbackMiddleware(fallback, req, upstream) ==
  LET Proxy(targetUrl) ==
        IF upstream.failed \/ ~UrlParses(StripTrailingSlashes(fallback[2]))
        THEN [status |-> 502,
              body |-> Obj(<<<<K_error, FallbackUnavailable>>,
                             <<K_target, Str(targetUrl)>>,
                             <<K_details, upstream.message>>>>)]
        ELSE [status |-> upstream.status, body |-> upstream.body]
  IN IF Truthy(fallback)
     THEN Proxy(TargetUrl(fallback, req))
     ELSE [status |-> 404, body |-> EndpointNotFoundBody]

(***************************************************************************)
(* The upstream request of the final middleware.  A request carries its    *)
(* originalUrl, the path with the query string, in req.path.               *)
(***************************************************************************)
\* the position of the "?" of a URL, 0 when it has no query string
QueryStart(url) == FirstIndex({i \in 1..Len(url) : url[i] = "?"})
\* the URL before its query string
OriginalPath(url) ==
  IF QueryStart(url) = 0 THEN url ELSE SubSeq(url, 1, QueryStart(url) - 1)
\* the query string of a URL, without the "?"
QueryString(url) ==
  IF QueryStart(url) = 0 THEN <<>> ELSE SubSeq(url, QueryStart(url) + 1, Len(url))
\* the parameters of a query string in order, each <<name, value>>
QueryPairs(qs) ==
  LET Pair(kv) == <<kv[1], IF Len(kv) > 1 THEN kv[2] ELSE <<>>>>
      Parts(parts) == [i \in 1..Len(parts) |-> Pair(Split(parts[i], "="))]
  IN IF qs = <<>> THEN <<>> ELSE Parts(Split(qs, "&"))
\* req.query: the names of the query string in the order they first occur,
\* each with its values in order
ParseQuery(url) ==
  LET Group(pairs) ==
        LET firsts == {i \in 1..Len(pairs) : \A j \in 1..(i - 1) : pairs[j][1] # pairs[i][1]}
            ValuesOf(name) ==
              LET at == {i \in 1..Len(pairs) : pairs[i][1] = name}
              IN [n \in 1..Cardinality(at) |->
                    pairs[CHOOSE p \in at : Cardinality({q \in at : q < p}) = n - 1][2]]
        IN [n \in 1..Cardinality(firsts) |->
              LET i == CHOOSE p \in firsts : Cardinality({q \in firsts : q < p}) = n - 1
              IN <<pairs[i][1], ValuesOf(pairs[i][1])>>]
  IN Group(QueryPairs(QueryString(url)))
RECURSIVE JoinWith(_, _)
\* parts.join(sep)
JoinWith(parts, sep) ==
  IF Len(parts) = 0 THEN <<>>
  ELSE IF Len(parts) = 1 THEN parts[1]
  ELSE parts[1] \o sep \o JoinWith(Tail(parts), sep)
RECURSIVE SerializeFrom(_, _)
\* the parameters axios writes for req.query from entry i on: name=value for
\* a single value, name[]=value for each value of a repeated name
SerializeFrom(query, i) ==
  LET One(name, values) ==
        IF Len(values) = 1 THEN <<name \o <<"=">> \o values[1]>>
        ELSE [n \in 1..Len(values) |-> name \o <<"[", "]", "=">> \o values[n]]
  IN IF i > Len(query) THEN <<>>
     ELSE One(query[i][1], query[i][2]) \o SerializeFrom(query, i + 1)
\* the URL axios requests for { url, params }: the serialized params are
\* appended to the URL, after "&" when it already has a query string
BuildURL(url, params) ==
  LET Append2(serialized) ==
        IF serialized = <<>> THEN url
        ELSE url \o (IF QueryStart(url) = 0 THEN <<"?">> ELSE <<"&">>) \o serialized
  IN Append2(JoinWith(SerializeFrom(params, 1), <<"&">>))
\* new URL(baseUrl).host for a base URL without path
UrlHost(baseUrl) ==
  LET From(i) == SubSeq(baseUrl, i + 3, Len(baseUrl))
  IN From(FirstIndex({i \in 1..(Len(baseUrl) - 2) : SubSeq(baseUrl, i, i + 2) = <<":", "/", "/">>}))
K_host == <<"h", "o", "s", "t">>
\* the request the final middleware hands to axios; <<>> when new URL()
\* throws before the call
UpstreamRequest(fallback, req) ==
  LET Call(baseUrl) ==
        IF ~UrlParses(baseUrl) THEN <<>>
        ELSE <<[method |-> req.method,
                url |-> BuildURL(TargetUrl(fallback, req), ParseQuery(req.path)),
                headers |-> Spread(req.headers, Obj(<<<<K_host, Str(UrlHost(baseUrl))>>>>)),
                data |-> IF req.method \in {"GET", "HEAD"} THEN Undefined ELSE req.body]>>
  IN Call(StripTrailingSlashes(fallback[2]))

(***************************************************************************)
(* The parser: texts are sequences of characters; JSON.parse.              *)
(***************************************************************************)
\* the character at position i of cs, "" past its ends
CharAt(cs, i) == IF i \in 1..Len(cs) THEN cs[i] ELSE ""
\* \s
IsSpace(c) == c \in {" ", "\n", "\t", "\r"}
\* the least index of hits, none for the empty set
FirstOr(hits, none) == IF hits = {} THEN none ELSE FirstIndex(hits)
\* the position of the first character at or after i that is no white space
SkipSpaces(cs, i) == FirstOr({j \in i..Len(cs) : ~IsSpace(cs[j])}, Len(cs) + 1)
\* text.indexOf(word, from), in positions from 1; 0 when word does not occur
IndexOf(cs, word, from) ==
  FirstIndex({i \in from..(Len(cs) - Len(word) + 1) : SubSeq(cs, i, i + Len(word) - 1) = word})
\* the characters of cs at the positions keep, in order
Pick(cs, keep) ==
  [n \in 1..Cardinality(keep) |->
     cs[CHOOSE p \in keep : Cardinality({q \in keep : q < p}) = n - 1]]

\* the character at i follows an odd number of backslashes
IsEscaped(cs, i) ==
  LET Odd(start) == (i - start) % 2 = 1
  IN Odd(FirstOr({j \in 1..i : \A k \in j..(i - 1) : cs[k] = "\\"}, i))

\* a failed parse: JSON.parse throws a SyntaxError
ParseFails == [ok |-> FALSE, v |-> Undefined, next |-> 0]
Parsed(v, next) == [ok |-> TRUE, v |-> v, next |-> next]

\* a string literal that opens at position i
ParseString(cs, i) ==
  LET Content(close) ==
        IF close = 0 \/ \E k \in (i + 1)..(close - 1) : cs[k] \in {"\n", "\t", "\r"}
        THEN ParseFails
        ELSE Parsed(Str(Pick(cs, {k \in (i + 1)..(close - 1) :
                                    cs[k] # "\\" \/ IsEscaped(cs, k)})),
                    close + 1)
  IN Content(FirstIndex({j \in (i + 1)..Len(cs) : cs[j] = "\"" /\ ~IsEscaped(cs, j)}))

\* a number that starts at position i: digits, with a minus sign before
\* them at most; a leading zero stands alone
ParseNumber(cs, i) ==
  LET Digits(from, end) ==
        IF end = from \/ (cs[from] = "0" /\ end > from + 1) \/ CharAt(cs, end) = "."
        THEN ParseFails
        ELSE Parsed(Num((IF from > i THEN 0 - 1 ELSE 1) * CharsToNat(SubSeq(cs, from, end - 1))),
                    end)
      From(from) == Digits(from, FirstOr({j \in from..Len(cs) : ~IsDigit(cs[j])}, Len(cs) + 1))
  IN From(IF cs[i] = "-" THEN i + 1 ELSE i)

W_true == <<"t", "r", "u", "e">>
W_false == <<"f", "a", "l", "s", "e">>
W_null == <<"n", "u", "l", "l">>
\* the text from position i starts with word
StartsAt(cs, i, word) ==
  i >= 1 /\ i + Len(word) - 1 <= Len(cs) /\ SubSeq(cs, i, i + Len(word) - 1) = word

RECURSIVE ParseValue(_, _)
RECURSIVE ParseMembers(_, _, _)
RECURSIVE ParseElements(_, _, _)

\* the value that starts at or after position i, and the position after it
ParseValue(cs, i) ==
  LET At(j) ==
        CASE CharAt(cs, j) = "{" ->
               IF CharAt(cs, SkipSpaces(cs, j + 1)) = "}"
               THEN Parsed(EmptyObj, SkipSpaces(cs, j + 1) + 1)
               ELSE ParseMembers(cs, SkipSpaces(cs, j + 1), EmptyObj)
          [] CharAt(cs, j) = "[" ->
               IF CharAt(cs, SkipSpaces(cs, j + 1)) = "]"
               THEN Parsed(Arr(<<>>), SkipSpaces(cs, j + 1) + 1)
               ELSE ParseElements(cs, j + 1, <<>>)
          [] CharAt(cs, j) = "\"" -> ParseString(cs, j)
          [] CharAt(cs, j) = "-" \/ IsDigit(CharAt(cs, j)) -> ParseNumber(cs, j)
          [] StartsAt(cs, j, W_true) -> Parsed(Bool(TRUE), j + 4)
          [] StartsAt(cs, j, W_false) -> Parsed(Bool(FALSE), j + 5)
          [] StartsAt(cs, j, W_null) -> Parsed(Null, j + 4)
          [] OTHER -> ParseFails
  IN At(SkipSpaces(cs, i))

\* the members of an object from the key at position i to its closing
\* brace; a key written twice keeps its last value
ParseMembers(cs, i, acc) ==
  IF CharAt(cs, i) # "\"" THEN ParseFails
  ELSE Only({
    IF ~key.ok \/ CharAt(cs, SkipSpaces(cs, key.next)) # ":" THEN ParseFails
    ELSE Only({
      IF ~value.ok THEN ParseFails
      ELSE IF CharAt(cs, SkipSpaces(cs, value.next)) = ","
      THEN ParseMembers(cs, SkipSpaces(cs, SkipSpaces(cs, value.next) + 1),
                        SetField(acc, key.v[2], value.v))
      ELSE IF CharAt(cs, SkipSpaces(cs, value.next)) = "}"
      THEN Parsed(SetField(acc, key.v[2], value.v), SkipSpaces(cs, value.next) + 1)
      ELSE ParseFails :
        value \in {ParseValue(cs, SkipSpaces(cs, key.next) + 1)}}) :
      key \in {ParseString(cs, i)}})

\* the elements of an array from position i to its closing bracket
ParseElements(cs, i, acc) ==
  Only({
    IF ~value.ok THEN ParseFails
    ELSE IF CharAt(cs, SkipSpaces(cs, value.next)) = ","
    THEN ParseElements(cs, SkipSpaces(cs, value.next) + 1, Append(acc, value.v))
    ELSE IF CharAt(cs, SkipSpaces(cs, value.next)) = "]"
    THEN Parsed(Arr(Append(acc, value.v)), SkipSpaces(cs, value.next) + 1)
    ELSE ParseFails :
      value \in {ParseValue(cs, i)}})

\* JSON.parse(text): the value, or a failure when text is not one JSON
\* value
JsonParse(cs) ==
  LET Whole(p) ==
        IF p.ok /\ SkipSpaces(cs, p.next) = Len(cs) + 1 THEN p ELSE ParseFails
  IN Whole(ParseValue(cs, 1))

(***************************************************************************)
(* The parser: one endpoint from the text of a code block.                 *)
(***************************************************************************)
\* the verbs of the method patterns, in the order of their alternatives
VerbNames == <<"GET", "POST", "PUT", "DELETE", "PATCH">>
VerbWords ==
  <<<<"g", "e", "t">>, <<"p", "o", "s", "t">>, <<"p", "u", "t">>, <<"d", "e", "l", "e", "t", "e">>, <<"p", "a", "t", "c", "h">>>>

\* ^ under the m flag: the start of the text or of a line
IsLineStart(cs, p) == p = 1 \/ cs[p - 1] \in {"\n", "\r"}

\* text.match(/^(GET|POST|PUT|DELETE)\s+(\/[^\s\n]*)/im): <<method, path>>
\* of the first match, <<>> when there is none
MatchMethodPath(text) ==
  LET VerbAt(p) ==
        {v \in 1..4 : /\ StartsAt(ToLowerCase(text), p, VerbWords[v])
                      /\ IsSpace(CharAt(text, p + Len(VerbWords[v])))
                      /\ CharAt(text, SkipSpaces(text, p + Len(VerbWords[v]))) = "/"}
      Path(from) ==
        SubSeq(text, from, FirstOr({j \in from..Len(text) : IsSpace(text[j])}, Len(text) + 1) - 1)
      Match(p, v) == <<VerbNames[v], Path(SkipSpaces(text, p + Len(VerbWords[v])))>>
      First(p) == IF p = 0 THEN <<>> ELSE Match(p, FirstIndex(VerbAt(p)))
  IN First(FirstIndex({p \in 1..Len(text) : IsLineStart(text, p) /\ VerbAt(p) # {}}))

\* text.match(/<marker>\s*\n\s*(\{[\s\S]*?\})/i): <<the captured span>> of
\* the first match, <<>> when there is none; the span ends at the first
\* closing brace
MatchObjectAfter(text, marker) ==
  LET Open(k) == SkipSpaces(text, k + Len(marker))
      Matches(k) ==
        /\ StartsAt(ToLowerCase(text), k, marker)
        /\ CharAt(text, Open(k)) = "{"
        /\ \E j \in (k + Len(marker))..(Open(k) - 1) : text[j] = "\n"
        /\ \E j \in (Open(k) + 1)..Len(text) : text[j] = "}"
      Span(from) ==
        <<SubSeq(text, from, FirstIndex({j \in (from + 1)..Len(text) : text[j] = "}"}))>>
      First(k) == IF k = 0 THEN <<>> ELSE Span(Open(k))
  IN First(FirstIndex({k \in 1..Len(text) : Matches(k)}))

W_request == <<"r", "e", "q", "u", "e", "s", "t", ":">>
W_response == <<"r", "e", "s", "p", "o", "n", "s", "e", ":">>
W_status == <<"s", "t", "a", "t", "u", "s", ":">>

\* text.match(/Status:\s*(\d{3})/i): <<the three digits>> or <<>>
MatchStatus(text) ==
  LET Digits(k) == SkipSpaces(text, k + Len(W_status))
      Matches(k) ==
        /\ StartsAt(ToLowerCase(text), k, W_status)
        /\ \A j \in Digits(k)..(Digits(k) + 2) : IsDigit(CharAt(text, j))
      First(k) == IF k = 0 THEN <<>> ELSE <<SubSeq(text, Digits(k), Digits(k) + 2)>>
  IN First(FirstIndex({k \in 1..Len(text) : Matches(k)}))

\* parseEndpointFromText giving up on a block whose Response: text is not
\* JSON
parseEndpointFromTextRejectingBadJson(text) ==
  LET Request(match) ==
        IF match # <<>> /\ JsonParse(match[1]).ok THEN JsonParse(match[1]).v ELSE Undefined
      Response(match) ==
        IF match # <<>> /\ JsonParse(match[1]).ok THEN JsonParse(match[1]).v ELSE EmptyObj
      Status(match) ==
        IF match # <<>> THEN Num(CharsToNat(match[1])) ELSE Undefined
      BadJson(match) == match # <<>> /\ ~JsonParse(match[1]).ok
      Endpoint(methodPath) ==
        IF methodPath = <<>> \/ BadJson(MatchObjectAfter(text, W_response)) THEN <<>>
        ELSE <<[method |-> methodPath[1],
                path |-> methodPath[2],
                request |-> Request(MatchObjectAfter(text, W_request)),
                response |-> Response(MatchObjectAfter(text, W_response)),
                status |-> Status(MatchStatus(text))]>>
  IN Endpoint(MatchMethodPath(text))

\* parseEndpointFromText: the endpoint of a code block as a sequence of one
\* element, the empty sequence (null) when the text has no method and path
\* line
parseEndpointFromText(text) ==
  LET Request(match) ==
        IF match # <<>> /\ JsonParse(match[1]).ok THEN JsonParse(match[1]).v ELSE Undefined
      Response(match) ==
        IF match # <<>> /\ JsonParse(match[1]).ok THEN JsonParse(match[1]).v ELSE EmptyObj
      Status(match) ==
        IF match # <<>> THEN Num(CharsToNat(match[1])) ELSE Undefined
      Endpoint(methodPath) ==
        IF methodPath = <<>> THEN <<>>
        ELSE <<[method |-> methodPath[1],
                path |-> methodPath[2],
                request |-> Request(MatchObjectAfter(text, W_request)),
                response |-> Response(MatchObjectAfter(text, W_response)),
                status |-> Status(MatchStatus(text))]>>
  IN Endpoint(MatchMethodPath(text))

(***************************************************************************)
(* The parser: tables and the literal blocks that belong to them.  A       *)
(* document is the sequence of its tables, CDATA blocks and code blocks in *)
(* document order; a table is its rows, a row its first header cell and    *)
(* its first data cell (the cell's text and the text of its code element). *)
(***************************************************************************)
\* the greatest index of hits, 0 for the empty set
LastIndex(hits) == IF hits = {} THEN 0 ELSE CHOOSE i \in hits : \A j \in hits : j <= i
\* String.prototype.trimEnd
TrimEnd(cs) == SubSeq(cs, 1, LastIndex({j \in 1..Len(cs) : ~IsSpace(cs[j])}))
\* String.prototype.trim, for every kind of white space
TrimSpaces(cs) ==
  SubSeq(cs, SkipSpaces(cs, 1), LastIndex({j \in 1..Len(cs) : ~IsSpace(cs[j])}))

\* the state of the scanning loops of extractCompleteJSON and
\* stripJSONComments before their first character
ScanStart == [depth |-> 0, inString |-> FALSE, escapeNext |-> FALSE, end |-> 0]

\* the loop body counting every brace, also those inside strings
ScanStepCountingAllBraces(st, text, i, braces) ==
  CASE st.end # 0 -> st
    [] braces /\ text[i] = "{" -> [st EXCEPT !.depth = @ + 1]
    [] braces /\ text[i] = "}" ->
         [st EXCEPT !.depth = @ - 1, !.end = IF st.depth = 1 THEN i ELSE 0]
    [] ~braces /\ text[i] = "/" /\ CharAt(text, i + 1) = "/" -> [st EXCEPT !.end = i]
    [] OTHER -> st

\* one iteration of the loop at position i: of extractCompleteJSON when
\* braces, of stripJSONComments otherwise; end is set where the loop leaves
ScanStep(st, text, i, braces) ==
  CASE st.end # 0 -> st
    [] st.escapeNext -> [st EXCEPT !.escapeNext = FALSE]
    [] text[i] = "\\" -> [st EXCEPT !.escapeNext = TRUE]
    [] text[i] = "\"" -> [st EXCEPT !.inString = ~@]
    [] st.inString -> st
    [] braces /\ text[i] = "{" -> [st EXCEPT !.depth = @ + 1]
    [] braces /\ text[i] = "}" ->
         [st EXCEPT !.depth = @ - 1, !.end = IF st.depth = 1 THEN i ELSE 0]
    [] ~braces /\ text[i] = "/" /\ CharAt(text, i + 1) = "/" -> [st EXCEPT !.end = i]
    [] OTHER -> st

RECURSIVE Scan(_, _, _, _, _)
\* the loop over the positions first..last from the state st; the range is
\* scanned by halves, the second half from the state the first half leaves
Scan(st, text, first, last, braces) ==
  IF first > last THEN st
  ELSE IF first = last THEN ScanStep(st, text, first, braces)
  ELSE Only({Scan(half, text, (first + last) \div 2 + 1, last, braces) :
               half \in {Scan(st, text, first, (first + last) \div 2, braces)}})

RECURSIVE JoinLines(_, _)
\* lines.join('\n') from line i on
JoinLines(lines, i) ==
  IF i > Len(lines) THEN <<>>
  ELSE IF i = Len(lines) THEN lines[i]
  ELSE lines[i] \o <<"\n">> \o JoinLines(lines, i + 1)

\* stripJSONComments, one line: the line up to a // outside strings
StripLineComment(line) ==
  LET Cut(st) == IF st.end = 0 THEN line ELSE TrimEnd(SubSeq(line, 1, st.end - 1))
  IN Cut(Scan(ScanStart, line, 1, Len(line) - 1, FALSE))

\* stripJSONComments
stripJSONComments(jsonStr) ==
  LET Stripped(lines) == [i \in 1..Len(lines) |-> StripLineComment(lines[i])]
  IN JoinLines(Stripped(Split(jsonStr, "\n")), 1)

\* extractCompleteJSON: the object after startKeyword, Null when there is
\* none
extractCompleteJSON(text, startKeyword) ==
  LET Sanitized(p) == IF p.ok THEN p.v ELSE Null
      Strict(p, jsonStr) ==
        IF p.ok THEN p.v ELSE Sanitized(JsonParse(stripJSONComments(jsonStr)))
      Value(jsonStr) == Strict(JsonParse(jsonStr), jsonStr)
      Span(jsonStart, st) ==
        IF st.end = 0 THEN Null ELSE Value(SubSeq(text, jsonStart, st.end))
      From(jsonStart) ==
        IF jsonStart = 0 THEN Null
        ELSE Span(jsonStart, Scan(ScanStart, text, jsonStart, Len(text), TRUE))
      After(startIndex) ==
        IF startIndex = 0 THEN Null ELSE From(IndexOf(text, <<"{">>, startIndex))
  IN After(IndexOf(text, startKeyword, 1))

M_ResponseStructureColon == <<"R", "e", "s", "p", "o", "n", "s", "e", " ", "S", "t", "r", "u", "c", "t", "u", "r", "e", ":">>
M_ResponseStructure == <<"R", "e", "s", "p", "o", "n", "s", "e", " ", "S", "t", "r", "u", "c", "t", "u", "r", "e">>
M_RequestStructureColon == <<"R", "e", "q", "u", "e", "s", "t", " ", "S", "t", "r", "u", "c", "t", "u", "r", "e", ":">>
M_BodyColon == <<"B", "o", "d", "y", ":">>
M_RequestBodyColon == <<"R", "e", "q", "u", "e", "s", "t", " ", "B", "o", "d", "y", ":">>
M_RequestColon == <<"R", "e", "q", "u", "e", "s", "t", ":">>
M_Response == <<"R", "e", "s", "p", "o", "n", "s", "e">>

\* the body of the loop of extractFromAssociatedBlocks for one block
ExtractFromBlock(result, content) ==
  LET Json(marker) == extractCompleteJSON(content, marker)
      OrKeep(json, old) == IF json # Null THEN json ELSE old
      Response ==
        IF Truthy(result.response) THEN result.response
        ELSE IF Includes(content, M_ResponseStructureColon)
        THEN OrKeep(Json(M_ResponseStructureColon), result.response)
        ELSE IF Includes(content, M_ResponseStructure)
        THEN OrKeep(Json(M_ResponseStructure), result.response)
        ELSE result.response
      Request ==
        IF Truthy(result.request) THEN result.request
        ELSE IF Includes(content, M_RequestStructureColon)
        THEN OrKeep(Json(M_RequestStructureColon), result.request)
        ELSE IF Includes(content, M_BodyColon)
        THEN OrKeep(Json(M_BodyColon), result.request)
        ELSE IF Includes(content, M_RequestBodyColon)
        THEN OrKeep(Json(M_RequestBodyColon), result.request)
        ELSE IF Includes(content, M_RequestColon) /\ ~Includes(content, M_Response)
        THEN OrKeep(Json(M_RequestColon), result.request)
        ELSE result.request
  IN [request |-> Request, response |-> Response]

RECURSIVE ExtractFromBlocks(_, _, _)
ExtractFromBlocks(result, blocks, i) ==
  IF i > Len(blocks) THEN result
  ELSE Only({ExtractFromBlocks(r, blocks, i + 1) :
               r \in {ExtractFromBlock(result, blocks[i])}})

\* extractFromAssociatedBlocks, for the contents of the blocks in order
extractFromAssociatedBlocks(blocks) ==
  ExtractFromBlocks([request |-> Undefined, response |-> Undefined], blocks, 1)

\* value.match(/(GET|POST|PUT|DELETE|PATCH)/i): the verb of the first
\* match, "" when there is none
MatchVerb(value) ==
  LET VerbAt(p) == {v \in 1..5 : StartsAt(ToLowerCase(value), p, VerbWords[v])}
      First(p) == IF p = 0 THEN "" ELSE VerbNames[FirstIndex(VerbAt(p))]
  IN First(FirstIndex({p \in 1..Len(value) : VerbAt(p) # {}}))

W_url == <<"u", "r", "l">>
W_endpoint == <<"e", "n", "d", "p", "o", "i", "n", "t">>
W_method == <<"m", "e", "t", "h", "o", "d">>
W_api == <<"a", "p", "i", "/">>

\* the URL row read without cutting the query string off
TablePathWithQuery(value) ==
  LET Slashed(url) ==
        IF StartsWith(url, W_api) THEN <<"/">> \o url
        ELSE IF ~StartsWith(url, <<"/">>) /\ Includes(url, W_api) THEN <<"/">> \o url
        ELSE url
  IN Slashed(value)

\* the path of a URL row: the value without its query string, with a
\* leading slash put before a path with api/ that has none
TablePath(value) ==
  LET Slashed(url) ==
        IF StartsWith(url, W_api) THEN <<"/">> \o url
        ELSE IF ~StartsWith(url, <<"/">>) /\ Includes(url, W_api) THEN <<"/">> \o url
        ELSE url
  IN Slashed(Split(value, "?")[1])

\* the body of the loop of parseEndpointFromTable for one row
TableRow(endpoint, row) ==
  LET Method(verb, old) == IF verb # "" THEN verb ELSE old
      Read(label, value) ==
        [path |-> IF Includes(label, W_url) \/ Includes(label, W_endpoint)
                  THEN TablePath(value) ELSE endpoint.path,
         method |-> IF Includes(label, W_method)
                    THEN Method(MatchVerb(value), endpoint.method) ELSE endpoint.method]
      Value(cell) ==
        IF Len(TrimSpaces(cell.code)) > 0 THEN TrimSpaces(cell.code)
        ELSE TrimSpaces(cell.text)
  IN IF row.th = <<>> \/ row.td = <<>> THEN endpoint
     ELSE Read(ToLowerCase(TrimSpaces(row.th[1])), Value(row.td[1]))

RECURSIVE TableRows(_, _, _)
TableRows(endpoint, rows, i) ==
  IF i > Len(rows) THEN endpoint
  ELSE Only({TableRows(e, rows, i + 1) : e \in {TableRow(endpoint, rows[i])}})

\* parseEndpointFromTable: the method and path of a table as a sequence of
\* one element, the empty sequence (null) unless it has both
parseEndpointFromTable(rows) ==
  LET Both(endpoint) ==
        IF endpoint.method # "" /\ Len(endpoint.path) > 0 THEN <<endpoint>> ELSE <<>>
  IN Both(TableRows([path |-> <<>>, method |-> ""], rows, 1))

K_message == <<"m", "e", "s", "s", "a", "g", "e">>
K_data == <<"d", "a", "t", "a">>
DefaultResponse == Obj(<<<<K_message, Str(<<"S", "u", "c", "c", "e", "s", "s">>)>>, <<K_data, EmptyObj>>>>)

W_tableTag == <<"<", "t", "a", "b", "l", "e">>
\* /<table[\s>]/i matches in the text
HasTableTag(text) ==
  \E p \in 1..Len(text) :
     /\ StartsAt(ToLowerCase(text), p, W_tableTag)
     /\ (IsSpace(CharAt(text, p + Len(W_tableTag))) \/ CharAt(text, p + Len(W_tableTag)) = ">")

\* $('table').toArray(): the tables of a document, in document order
Tables(doc) == Pick([k \in 1..Len(doc) |-> k], {k \in 1..Len(doc) : doc[k].kind = "table"})

\* the offset in the raw markup at which the k-th element starts; what lies
\* inside the element is at Offset(k) + 1
Offset(k) == 2 * k

\* tablePositions: the offsets of the matches of /<table[\s>]/gi in the raw
\* markup, in increasing order: the tables, and the literal blocks whose
\* text has such a match
TablePositions(doc) ==
  Pick([j \in 1..(Offset(Len(doc)) + 1) |-> j],
       {Offset(k) : k \in {k \in 1..Len(doc) : doc[k].kind = "table"}}
         \cup {Offset(k) + 1 :
                 k \in {k \in 1..Len(doc) : doc[k].kind = "cdata" /\ HasTableTag(doc[k].text)}})

\* the loop body of parseTableBasedEndpoints for the i-th table: the
\* endpoints it pushes
TableEndpoint(doc, i) ==
  LET positions == TablePositions(doc)
      Blocks(thisTablePos, nextTablePos) ==
        Pick([k \in 1..Len(doc) |-> doc[k].text],
             {k \in 1..Len(doc) :
                doc[k].kind = "cdata" /\ Offset(k) > thisTablePos /\ Offset(k) < nextTablePos})
      Filled(endpoint, snippet) ==
        <<[method |-> endpoint.method,
           path |-> endpoint.path,
           request |-> snippet.request,
           response |-> IF Truthy(snippet.response) THEN snippet.response ELSE DefaultResponse,
           status |-> IF endpoint.method = "POST" THEN Num(201) ELSE Num(200)]>>
      Pushed(found) ==
        IF found = <<>> THEN <<>>
        ELSE Filled(found[1],
                    extractFromAssociatedBlocks(
                      Blocks(IF i <= Len(positions) THEN positions[i] ELSE 0,
                             IF i + 1 <= Len(positions) THEN positions[i + 1]
                             ELSE Offset(Len(doc)) + 2)))
  IN Pushed(parseEndpointFromTable(doc[Tables(doc)[i]].rows))

RECURSIVE TableEndpointsFrom(_, _)
TableEndpointsFrom(doc, i) ==
  IF i > Len(Tables(doc)) THEN <<>>
  ELSE TableEndpoint(doc, i) \o TableEndpointsFrom(doc, i + 1)

\* parseTableBasedEndpoints
parseTableBasedEndpoints(doc) == TableEndpointsFrom(doc, 1)

\* $('pre, code, div.code, div.codeContent'): the texts of the code blocks
\* and of the code elements of the table cells, in document order
RECURSIVE CodeTextsFrom(_, _)
CodeTextsFrom(doc, i) ==
  LET CellCodes(rows) ==
        Pick([k \in 1..Len(rows) |-> IF rows[k].td = <<>> THEN <<>> ELSE rows[k].td[1].code],
             {k \in 1..Len(rows) : rows[k].td # <<>> /\ Len(rows[k].td[1].code) > 0})
      Texts(element) ==
        CASE element.kind = "pre" -> <<element.text>>
          [] element.kind = "table" -> CellCodes(element.rows)
          [] OTHER -> <<>>
  IN IF i > Len(doc) THEN <<>> ELSE Texts(doc[i]) \o CodeTextsFrom(doc, i + 1)

RECURSIVE CodeEndpointsFrom(_, _)
\* the loop of parseERDFromHTML over the code blocks
CodeEndpointsFrom(blocks, i) ==
  LET Block(text) == IF Len(text) = 0 THEN <<>> ELSE parseEndpointFromText(text)
  IN IF i > Len(blocks) THEN <<>>
     ELSE Block(TrimSpaces(blocks[i])) \o CodeEndpointsFrom(blocks, i + 1)

\* parseERDFromHTML
parseERDFromHTML(doc) ==
  parseTableBasedEndpoints(doc) \o CodeEndpointsFrom(CodeTextsFrom(doc, 1), 1)

\* validateSchema: whether it throws
validateSchema(sch) == Len(sch) = 0

(***************************************************************************)
(* The CLI action.                                                         *)
(***************************************************************************)
\* parseInt(cs, 10): white space, a sign and the leading digits; NaN when
\* there is no digit
ParseInt(cs) ==
  LET Value(first, stop, negative) ==
        IF stop = first THEN NaN
        ELSE IF negative THEN Num(0 - CharsToNat(SubSeq(cs, first, stop - 1)))
        ELSE Num(CharsToNat(SubSeq(cs, first, stop - 1)))
      Digits(first, negative) ==
        Value(first, FirstOr({j \in first..Len(cs) : ~IsDigit(cs[j])}, Len(cs) + 1), negative)
      Signed(start) ==
        IF CharAt(cs, start) \in {"-", "+"} THEN Digits(start + 1, CharAt(cs, start) = "-")
        ELSE Digits(start, FALSE)
  IN Signed(SkipSpaces(cs, 1))

\* isNaN(port) || port < 1 || port > 65535
InvalidPort(port) == IsNaN(port) \/ port[2] < 1 \/ port[2] > 65535
\* isNaN(delay) || delay < 0
InvalidDelay(delay) == IsNaN(delay) \/ delay[2] < 0

RECURSIVE SeedFrom(_, _, _, _)
\* the loop of initFromSchema from endpoint i on; it stops where an
\* iteration throws
SeedFrom(sch, i, st, r) ==
  IF i > Len(sch) THEN [store |-> st, r |-> r, threw |-> FALSE]
  ELSE Only({IF s.threw THEN s ELSE SeedFrom(sch, i + 1, s.store, s.r) :
               s \in {InitFromEndpoint(st, r, sch[i])}})
\* DataStore.initFromSchema on the empty store
initFromSchema(sch, r) == SeedFrom(sch, 1, <<>>, r)

(***************************************************************************)
(* The page fetcher.                                                       *)
(***************************************************************************)
W_fileScheme == <<"f", "i", "l", "e", ":", "/", "/">>
W_cloudSuffix == <<".", "a", "t", "l", "a", "s", "s", "i", "a", "n", ".", "n", "e", "t">>
W_pages == <<"/", "p", "a", "g", "e", "s", "/">>
W_restPath == <<"/", "w", "i", "k", "i", "/", "r", "e", "s", "t", "/", "a", "p", "i", "/", "c", "o", "n", "t", "e", "n", "t", "/">>
W_expand == <<"?", "e", "x", "p", "a", "n", "d", "=", "b", "o", "d", "y", ".", "s", "t", "o", "r", "a", "g", "e">>
IsLetter(c) == \E i \in 1..Len(UpperChars) : UpperChars[i] = c \/ LowerChars[i] = c

\* extractPageId: url.match(/\/pages\/(\d+)/), the digits or null
extractPageId(url) ==
  LET Digits(from) ==
        SubSeq(url, from,
               FirstOr({j \in from..Len(url) : ~IsDigit(url[j])}, Len(url) + 1) - 1)
      At(i) == IF i = 0 THEN Null ELSE Str(Digits(i + Len(W_pages)))
  IN At(FirstIndex({i \in 1..(Len(url) - Len(W_pages)) :
                      /\ SubSeq(url, i, i + Len(W_pages) - 1) = W_pages
                      /\ IsDigit(url[i + Len(W_pages)])}))

\* new URL(url).hostname of a URL new URL() accepts, without a port
UrlHostname(url) ==
  LET Host(rest) ==
        SubSeq(rest, 1, FirstOr({j \in 1..Len(rest) : rest[j] \in {"/", "?", "#"}},
                                Len(rest) + 1) - 1)
      After(i) == Host(SubSeq(url, i + 3, Len(url)))
  IN After(FirstIndex({i \in 1..(Len(url) - 2) : SubSeq(url, i, i + 2) = <<":", "/", "/">>}))

\* extractBaseUrl: protocol and hostname, null when new URL() throws
extractBaseUrl(url) ==
  LET Scheme(i) == SubSeq(url, 1, i)
      Base(i) == Str(Scheme(i) \o <<"/", "/">> \o UrlHostname(url))
  IN IF ~UrlParses(url) THEN Null
     ELSE Base(FirstIndex({i \in 1..(Len(url) - 2) : SubSeq(url, i, i + 2) = <<":", "/", "/">>}))

\* the path fetchConfluencePage reads for a file URL
LocalFilePath(url) ==
  LET ReplaceBar(p) ==
        LET bar == FirstIndex({i \in 1..Len(p) : p[i] = "|"})
        IN IF bar = 0 THEN p ELSE [p EXCEPT ![bar] = ":"]
      Normalize(filePath) ==
        IF /\ Len(filePath) >= 3
           /\ filePath[1] = "/"
           /\ IsLetter(filePath[2])
           /\ filePath[3] \in {":", "|"}
        THEN ReplaceBar(Tail(filePath))
        ELSE filePath
  IN Normalize(SubSeq(url, Len(W_fileScheme) + 1, Len(url)))

\* the mode fetchConfluencePage takes for a URL and the credentials of the
\* environment
FetchMode(url, email, token) ==
  IF StartsWith(url, W_fileScheme) THEN "file"
  ELSE IF /\ Includes(url, W_cloudSuffix)
          /\ Truthy(email) /\ Truthy(token)
          /\ Truthy(extractPageId(url)) /\ Truthy(extractBaseUrl(url))
  THEN "rest"
  ELSE "direct"

\* the request fetchViaRestApi sends
RestRequest(url, email, token) ==
  [url |-> extractBaseUrl(url)[2] \o W_restPath \o extractPageId(url)[2] \o W_expand,
   accept |-> "application/json", auth |-> <<email, token>>]
\* the request of the direct fetch
DirectRequest(url, email, token) ==
  [url |-> url, accept |-> "text/html",
   auth |-> IF Truthy(email) /\ Truthy(token) THEN <<email, token>> ELSE <<>>]

\* how a call in mode ends, given what the file system or the server does
FetchOutcome(mode, io) ==
  LET Page == [outcome |-> "page", errors |-> <<>>]
      Throws(e) == [outcome |-> "error", errors |-> <<e>>]
  IN CASE mode = "file" ->
            IF io.kind = "ok" THEN Page ELSE Throws("Failed to read local file")
       [] mode = "rest" ->
            IF io.kind = "ok" THEN Page
            ELSE IF io.kind = "no body" THEN Throws("Page body not found in API response")
            ELSE IF io.kind = "status" /\ io.status = 401 THEN Throws("Authentication failed")
            ELSE IF io.kind = "status" /\ io.status = 403 THEN Throws("Access forbidden")
            ELSE IF io.kind = "status" /\ io.status = 404 THEN Throws("Page not found")
            ELSE Throws("Confluence API error")
       [] OTHER ->
            IF io.kind = "ok" THEN Page
            ELSE IF io.kind = "login page" THEN Throws("Received login page")
            ELSE IF io.kind = "status" /\ io.status = 401 THEN Throws("Authentication failed")
            ELSE IF io.kind = "status" /\ io.status = 403 THEN Throws("Access forbidden")
            ELSE Throws("Failed to fetch Confluence page")

(***************************************************************************)
(* The schemas the server is started with: endpoint lists as the parser   *)
(* produces them (method, path, response template, optional status).      *)
(***************************************************************************)
\* a collection with its list, item, create, update and delete endpoints;
\* the POST endpoint comes from a code block without a Status: line
SchemaCrud ==
  <<[method |-> "GET", path |-> <<"/", "u">>,
      response |-> Arr(<<Obj(<<<<<<"i", "d">>, Num(1)>>, <<<<"n", "a", "m", "e">>, Str(<<"a">>)>>>>)>>),
      status |-> Num(200)],
    [method |-> "GET", path |-> <<"/", "u", "/", "{", "i", "d", "}">>,
      response |-> Obj(<<<<<<"i", "d">>, Num(1)>>, <<<<"n", "a", "m", "e">>, Str(<<"a">>)>>>>),
      status |-> Num(200)],
    [method |-> "POST", path |-> <<"/", "u">>,
      response |-> Obj(<<<<<<"i", "d">>, Num(1)>>, <<<<"n", "a", "m", "e">>, Str(<<"a">>)>>>>),
      status |-> Undefined],
    [method |-> "PUT", path |-> <<"/", "u", "/", "{", "i", "d", "}">>,
      response |-> Obj(<<<<<<"i", "d">>, Num(1)>>, <<<<"n", "a", "m", "e">>, Str(<<"a">>)>>>>),
      status |-> Num(200)],
    [method |-> "DELETE", path |-> <<"/", "u", "/", "{", "i", "d", "}">>,
      response |-> EmptyObj,
      status |-> Num(200)]>>

\* a list wrapped in an object, a second list endpoint with the same
\* collection key, and records whose identifier field is userId
SchemaWrapped ==
  <<[method |-> "GET", path |-> <<"/", "w">>,
      response |-> Obj(<<<<<<"e", "r", "r", "o", "r", "s">>, Bool(FALSE)>>, <<<<"d", "a", "t", "a">>, Arr(<<Obj(<<<<<<"u", "s", "e", "r", "I", "d">>, Num(1)>>, <<<<"n", "a", "m", "e">>, Str(<<"a">>)>>>>)>>)>>, <<<<"t", "o", "t", "a", "l">>, Num(1)>>>>),
      status |-> Num(200)],
    [method |-> "GET", path |-> <<"/", "v", "/", "w">>,
      response |-> Arr(<<Obj(<<<<<<"i", "d">>, Num(1)>>>>)>>),
      status |-> Num(200)],
    [method |-> "POST", path |-> <<"/", "w">>,
      response |-> Obj(<<<<<<"u", "s", "e", "r", "I", "d">>, Num(1)>>, <<<<"n", "a", "m", "e">>, Str(<<"a">>)>>>>),
      status |-> Num(201)],
    [method |-> "PATCH", path |-> <<"/", "w", "/", "{", "i", "d", "}">>,
      response |-> Obj(<<<<<<"u", "s", "e", "r", "I", "d">>, Num(1)>>, <<<<"n", "a", "m", "e">>, Str(<<"a">>)>>>>),
      status |-> Num(200)],
    [method |-> "DELETE", path |-> <<"/", "w", "/", "{", "i", "d", "}">>,
      response |-> EmptyObj,
      status |-> Num(200)]>>

\* the same method and path documented twice, and a collection that no
\* GET endpoint seeds
SchemaLazy ==
  <<[method |-> "GET", path |-> <<"/", "d">>,
      response |-> Obj(<<<<<<"o", "k">>, Bool(TRUE)>>>>),
      status |-> Num(200)],
    [method |-> "GET", path |-> <<"/", "d">>,
      response |-> Obj(<<<<<<"m", "s", "g">>, Str(<<"x">>)>>>>),
      status |-> Num(202)],
    [method |-> "POST", path |-> <<"/", "k">>,
      response |-> Obj(<<<<<<"i", "d">>, Num(1)>>>>),
      status |-> Undefined],
    [method |-> "PUT", path |-> <<"/", "k", "/", "{", "i", "d", "}">>,
      response |-> Obj(<<<<<<"i", "d">>, Num(1)>>>>),
      status |-> Num(200)],
    [method |-> "DELETE", path |-> <<"/", "k", "/", "{", "i", "d", "}">>,
      response |-> EmptyObj,
      status |-> Num(200)]>>

\* a GET endpoint whose response holds no array, and a POST endpoint with
\* the same collection key
SchemaUnseeded ==
  <<[method |-> "GET", path |-> <<"/", "k">>,
      response |-> Obj(<<<<<<"t", "o", "t", "a", "l">>, Num(0)>>, <<<<"o", "k">>, Bool(TRUE)>>>>),
      status |-> Num(200)],
    [method |-> "POST", path |-> <<"/", "k">>,
      response |-> Obj(<<<<<<"i", "d">>, Num(1)>>>>),
      status |-> Num(201)]>>

\* the first non-empty array of the response holds strings
SchemaCrash ==
  <<[method |-> "GET", path |-> <<"/", "t">>,
      response |-> Obj(<<<<<<"t", "a", "g", "s">>, Arr(<<Str(<<"a">>)>>)>>, <<<<"d", "a", "t", "a">>, Arr(<<Obj(<<<<<<"i", "d">>, Num(1)>>>>)>>)>>>>),
      status |-> Num(200)]>>

Schemas == {SchemaCrud, SchemaWrapped, SchemaLazy, SchemaCrash}

\* the values a path parameter takes in a request
IdParams == {<<"1">>, <<"1", "6">>, <<"0", "1">>, <<"x">>}

\* the JSON bodies of POST, PUT and PATCH requests
Bodies ==
  {EmptyObj,
   Obj(<<<<<<"n", "a", "m", "e">>, Str(<<"n", "e", "w">>)>>>>),
   Obj(<<<<<<"i", "d">>, Str(<<"0", "1">>)>>>>),
   Obj(<<<<<<"u", "s", "e", "r", "I", "d">>, Num(9)>>, <<<<"n", "a", "m", "e">>, Str(<<"n", "e", "w">>)>>>>)}

\* the lines typed on the console
ConsoleLines ==
  {<<"d", "e", "l", "a", "y", " ", "1">>,
   <<"d", "e", "l", "a", "y">>,
   <<"D", "E", "L", "A", "Y", " ", " ", "0">>,
   <<" ", "d", "e", "l", "a", "y", " ", "0", "2", " ">>,
   <<"d", "e", "l", "a", "y", " ", "-", "1">>,
   <<"d", "e", "l", "a", "y", " ", "1", ".", "5">>,
   <<"h", "e", "l", "p">>}

\* the JSON bodies of PUT /_config/delay
DelayBodies ==
  {Obj(<<<<<<"d", "e", "l", "a", "y">>, Num(0)>>>>),
   Obj(<<<<<<"d", "e", "l", "a", "y">>, Num(1)>>>>),
   Obj(<<<<<<"d", "e", "l", "a", "y">>, Frac(0, 5)>>>>),
   Obj(<<<<<<"d", "e", "l", "a", "y">>, Num(-1)>>>>),
   Obj(<<<<<<"d", "e", "l", "a", "y">>, Str(<<"1">>)>>>>),
   EmptyObj}

\* the --delay option, already validated by the CLI
StartDelays == {Num(0), Num(1)}

\* the seeds of the random source
Seeds == {0, 15}

ConfigDelayPath == <<"/", "_", "c", "o", "n", "f", "i", "g", "/", "d", "e", "l", "a", "y">>
UnknownPath == <<"/", "z", "z">>
K_delay == <<"d", "e", "l", "a", "y">>

RECURSIVE InstantiateFrom(_, _, _)
\* the request path that puts id in the place of every {name} of path
InstantiateFrom(path, id, i) ==
  LET Fill(closers) ==
        IF path[i] = "{" /\ closers # {}
        THEN id \o InstantiateFrom(path, id, (CHOOSE c \in closers : TRUE) + 1)
        ELSE <<path[i]>> \o InstantiateFrom(path, id, i + 1)
  IN IF i > Len(path) THEN <<>>
     ELSE Fill({j \in (i + 2)..Len(path) :
                  path[j] = "}" /\ \A m \in (i + 1)..(j - 1) : path[m] # "}"})

HasBody(method) == method \in {"POST", "PUT", "PATCH"}

\* the requests a client sends to the documented endpoints of sch
EndpointRequests(sch) ==
  UNION {{[method |-> sch[i].method, path |-> InstantiateFrom(sch[i].path, id, 1), body |-> b] :
            id \in IdParams, b \in IF HasBody(sch[i].method) THEN Bodies ELSE {EmptyObj}} :
         i \in 1..Len(sch)}

\* the --fallback option: absent, empty, a base URL with and without
\* trailing slashes, and a string new URL() rejects
FallbackUrls ==
  {Undefined, Str(<<>>), Str(<<"h", ":", "/", "/", "u">>), Str(<<"h", ":", "/", "/", "u", "/", "/">>), Str(<<"/">>)}

\* what the upstream call does: it answers with a status and a body, or it
\* fails with a message
Upstreams ==
  {[failed |-> FALSE, status |-> 200, body |-> Obj(<<<<<<"u", "p">>, Num(1)>>>>), message |-> Str(<<>>)],
   [failed |-> FALSE, status |-> 404, body |-> Str(<<"n", "o">>), message |-> Str(<<>>)],
   [failed |-> FALSE, status |-> 500, body |-> Str(<<>>), message |-> Str(<<>>)],
   [failed |-> TRUE, status |-> 0, body |-> Undefined, message |-> Str(<<"E", "C", "O", "N", "N", "R", "E", "F", "U", "S", "E", "D">>)]}

\* the requests a client sends: to the documented endpoints, with other
\* methods to their paths, and to paths nobody documented
AnyRequests(sch) ==
  EndpointRequests(sch)
    \cup {[method |-> m, path |-> p, body |-> EmptyObj] :
            m \in {"GET", "DELETE"},
            p \in {UnknownPath} \cup {InstantiateFrom(sch[i].path, <<"1">>, 1) : i \in 1..Len(sch)}}

\* the --delay option of a run that is shut down, in milliseconds
ShutdownDelays == {Num(0), Num(3000), Num(6000)}

\* the lengths of time the clock advances by, in milliseconds
ElapseSteps == {1000, 2500}

(***************************************************************************)
(* The pages the parser is given.                                          *)
(***************************************************************************)
Cell(text) == [text |-> text, code |-> <<>>]
CodeCell(code) == [text |-> code, code |-> code]
Row(label, cell) == [th |-> <<label>>, td |-> <<cell>>]
Table(rows) == [kind |-> "table", rows |-> rows, text |-> <<>>]
CData(text) == [kind |-> "cdata", rows |-> <<>>, text |-> text]
Pre(text) == [kind |-> "pre", rows |-> <<>>, text |-> text]

L_URL == <<"U", "R", "L">>
L_Endpoint == <<"E", "n", "d", "p", "o", "i", "n", "t">>
L_Method == <<"H", "T", "T", "P", " ", "M", "e", "t", "h", "o", "d">>
L_Note == <<"N", "o", "t", "e">>

\* GET api/u with a query string, the URL in a code element
TableGet ==
  Table(<<Row(L_Note, Cell(<<"l", "i", "s", "t">>)), Row(L_URL, CodeCell(<<" ", "a", "p", "i", "/", "u", "?", "x", "=", "1", " ">>)),
          Row(L_Method, Cell(<<"g", "e", "t">>))>>)
\* POST /u, the verb inside the text of a status macro
TablePost == Table(<<Row(L_Method, Cell(<<"P", "O", "S", "T", "P", "u", "r", "p", "l", "e">>)), Row(L_Endpoint, Cell(<<"/", "u">>))>>)
\* a URL row whose cell holds only a query string, and a verb
TableBlankUrl == Table(<<Row(L_URL, Cell(<<"?", "x", "=", "1">>)), Row(L_Method, Cell(<<"P", "U", "T">>))>>)
\* a URL row and a method row that names no verb
TableNoVerb == Table(<<Row(L_URL, Cell(<<"/", "u">>)), Row(L_Method, Cell(<<"n", "/", "a">>))>>)
\* a verb and no URL row; the second row has no header cell
TableNoUrl ==
  Table(<<Row(L_Method, Cell(<<"D", "e", "l", "e", "t", "e">>)), [th |-> <<>>, td |-> <<Cell(<<"/", "u">>)>>]>>)

CDataResponse == CData(<<"R", "e", "s", "p", "o", "n", "s", "e", " ", "S", "t", "r", "u", "c", "t", "u", "r", "e", ":", "\n", "{", "\"", "a", "\"", ":", " ", "[", "{", "\"", "b", "\"", ":", " ", "1", "}", "]", ",", " ", "/", "/", " ", "c", "\n", "\"", "d", "\"", ":", " ", "\"", "}", "\"", "}">>)
CDataBody == CData(<<"B", "o", "d", "y", ":", " ", "{", "\"", "n", "\"", ":", " ", "\"", "x", "\"", "}">>)

\* a block with all four parts and flat objects
BlockFlat == <<"P", "O", "S", "T", " ", "/", "c", "\n", "\n", "R", "e", "q", "u", "e", "s", "t", ":", "\n", "{", "\"", "n", "\"", ":", " ", "\"", "x", "\"", "}", "\n", "\n", "R", "e", "s", "p", "o", "n", "s", "e", ":", "\n", "{", "\"", "i", "d", "\"", ":", " ", "1", "}", "\n", "\n", "S", "t", "a", "t", "u", "s", ":", " ", "2", "0", "1">>
\* a block with all four parts whose response holds a nested object
BlockNested == <<"P", "U", "T", " ", "/", "o", "\n", "R", "e", "q", "u", "e", "s", "t", ":", "\n", "{", "\"", "n", "\"", ":", " ", "\"", "x", "\"", "}", "\n", "R", "e", "s", "p", "o", "n", "s", "e", ":", "\n", "{", "\"", "o", "\"", ":", " ", "{", "\"", "i", "d", "\"", ":", " ", "1", "}", "}", "\n", "S", "t", "a", "t", "u", "s", ":", " ", "2", "0", "2">>
\* the first example of the README, shortened to one field
BlockReadme == <<"G", "E", "T", " ", "/", "a", "p", "i", "/", "u", "s", "e", "r", "s", "\n", "\n", "R", "e", "s", "p", "o", "n", "s", "e", ":", "\n", "{", "\n", " ", "\"", "u", "s", "e", "r", "s", "\"", ":", " ", "[", "\n", " ", "{", "\n", " ", "\"", "i", "d", "\"", ":", " ", "1", "\n", " ", "}", "\n", " ", "]", "\n", "}">>
\* a block whose response is not JSON
BlockBadJson == <<"d", "e", "l", "e", "t", "e", " ", "/", "b", "\n", "R", "e", "s", "p", "o", "n", "s", "e", ":", "\n", "{", "o", "o", "p", "s", "}">>
\* a block without a method and path line
BlockProse == <<"P", "A", "T", "C", "H", " ", "/", "p", " ", "o", "r", " ", "n", "o", "t", "h", "i", "n", "g">>

BlockTexts == {BlockFlat, BlockNested, BlockReadme, BlockBadJson, BlockProse}

Elements ==
  {TableGet, TablePost, TableBlankUrl, TableNoVerb, TableNoUrl, CDataResponse, CDataBody}
    \cup {Pre(text) : text \in BlockTexts}

RECURSIVE SeqsUpTo(_, _)
\* the sequences over S with at most n elements
SeqsUpTo(S, n) ==
  IF n = 0 THEN {<<>>}
  ELSE {<<>>} \cup {<<x>> \o tail : x \in S, tail \in SeqsUpTo(S, n - 1)}

Pages == SeqsUpTo(Elements, MaxElements)

(***************************************************************************)
(* The paths and templates the pure functions are applied to.              *)
(***************************************************************************)
PathSegments ==
  {<<"a", "p", "i">>, <<"u", "s", "e", "r", "s">>, <<"p", "o", "s", "t", "s">>, <<"{", "i", "d", "}">>, <<":", "i", "d">>, <<"{", "n", "}", ".", "j", "s", "o", "n">>, <<"{", "a", "}", "-", "{", "b", "}">>, <<>>}

RECURSIVE JoinPath(_, _)
\* the path /s1/s2/... of the segments from the i-th on
JoinPath(segments, i) ==
  IF i > Len(segments) THEN <<>> ELSE <<"/">> \o segments[i] \o JoinPath(segments, i + 1)

SegmentLists == SeqsUpTo(PathSegments, MaxSegments) \ {<<>>}

K_users == <<"u", "s", "e", "r", "s">>
K_tags == <<"t", "a", "g", "s">>
K_meta == <<"m", "e", "t", "a">>

Templates ==
  {Null, Undefined, Str(<<"x">>), Num(7), Bool(TRUE), Arr(<<>>), EmptyObj,
   Arr(<<Num(1), Str(<<"x">>), EmptyObj>>),
   Arr(<<Obj(<<<<K_id, Num(1)>>, <<K_name, Str(<<>>)>>>>), Null>>),
   Obj(<<<<K_users, Arr(<<Obj(<<<<K_id, Str(<<>>)>>, <<K_tags, Arr(<<Str(<<>>)>>)>>>>)>>)>>,
         <<K_meta, Obj(<<<<K_total, Num(0)>>, <<K_error, Bool(TRUE)>>>>)>>,
         <<K_tags, Arr(<<>>)>>, <<K_title, Null>>>>),
   Arr(<<Arr(<<Bool(FALSE), Num(2)>>)>>)}

GeneratorStates == 0..15

(***************************************************************************)
(* The options and pages of a run of the CLI.                              *)
(***************************************************************************)
PortOptions == {<<"4", "0", "0", "0">>, <<"0">>, <<"6", "5", "5", "3", "6">>, <<"a", "b", "c">>, <<" ", "8", "0", "x">>}
DelayOptions == {<<"0">>, <<"2", "5", "0">>, <<"-", "1">>, <<"x">>}
FallbackOptions == {Undefined, Str(<<"h", ":", "/", "/", "u">>)}

\* a literal block whose first array holds strings: seeding fails on it
CDataStrings == CData(<<"R", "e", "s", "p", "o", "n", "s", "e", " ", "S", "t", "r", "u", "c", "t", "u", "r", "e", ":", "\n", "{", "\"", "t", "\"", ":", " ", "[", "\"", "a", "\"", "]", "}">>)

FetchedPages ==
  {<<>>, <<Pre(BlockProse)>>, <<Pre(BlockFlat)>>, <<TableGet, CDataResponse>>,
   <<TableGet, CDataStrings, TablePost>>}

(***************************************************************************)
(* The literal texts that extractCompleteJSON is applied to: a heading and *)
(* what follows it.                                                        *)
(***************************************************************************)
Headings == {<<"B", "o", "d", "y", ":">>, <<"R", "e", "q", "u", "e", "s", "t", " ", "S", "t", "r", "u", "c", "t", "u", "r", "e", ":">>, <<"R", "e", "s", "p", "o", "n", "s", "e", " ", "S", "t", "r", "u", "c", "t", "u", "r", "e">>, <<"N", "o", "t", "e", "s">>}
JsonBodies ==
  {<<"{", "\"", "a", "\"", ":", " ", "1", "}">>,
   <<"{", "\"", "a", "\"", ":", " ", "{", "\"", "b", "\"", ":", " ", "2", "}", "}", " ", "{", "\"", "c", "\"", ":", " ", "3", "}">>,
   <<"{", "\"", "a", "\"", ":", " ", "\"", "}", "\"", "}">>,
   <<"{", "\"", "a", "\"", ":", " ", "\"", "\\", "\"", "}", "\"", "}">>,
   <<"{", "\"", "a", "\"", ":", " ", "1", " ", "/", "/", " ", "c", "\n", "}">>,
   <<"{", "\"", "a", "\"", ":", " ", "\"", "x", "/", "/", "y", "\"", "}">>,
   <<"{", "\"", "a", "\"", ":", " ", "{", "\"", "b", "\"", ":", " ", "1", "}">>,
   <<"{", "o", "o", "p", "s", "}">>,
   <<"n", "o", "n", "e">>,
   <<"{", "\"", "a", "\"", ":", " ", "\"", "\\", "\\", "\"", "}">>,
   <<"{", "\"", "u", "\"", ":", " ", "\"", "h", ":", "/", "/", "x", "\"", ",", " ", "/", "/", " ", "c", "\n", "\"", "b", "\"", ":", " ", "2", "}">>,
   <<"{", "}">>,
   <<"{", "\"", "a", "\"", ":", " ", "\"", "{", "\"", "}", " ", "/", "/", " ", "}">>}
LiteralTexts == {heading \o <<"\n">> \o body : heading \in Headings, body \in JsonBodies}
Markers == {M_BodyColon, M_ResponseStructure, M_RequestStructureColon}

\* the contents of the literal blocks that follow a table
BlockContents ==
  {<<"R", "e", "q", "u", "e", "s", "t", " ", "S", "t", "r", "u", "c", "t", "u", "r", "e", ":", "\n", "{", "\"", "r", "\"", ":", " ", "1", "}">>,
   <<"B", "o", "d", "y", ":", "\n", "{", "\"", "b", "\"", ":", " ", "2", "}">>,
   <<"R", "e", "q", "u", "e", "s", "t", " ", "B", "o", "d", "y", ":", "\n", "{", "\"", "q", "\"", ":", " ", "3", "}">>,
   <<"R", "e", "q", "u", "e", "s", "t", ":", "\n", "{", "\"", "p", "\"", ":", " ", "4", "}">>,
   <<"R", "e", "q", "u", "e", "s", "t", ":", "\n", "{", "\"", "p", "\"", ":", " ", "4", "}", "\n", "R", "e", "s", "p", "o", "n", "s", "e", ":", " ", "n", "o", "n", "e">>,
   <<"R", "e", "s", "p", "o", "n", "s", "e", " ", "S", "t", "r", "u", "c", "t", "u", "r", "e", ":", "\n", "{", "\"", "s", "\"", ":", " ", "5", "}">>,
   <<"R", "e", "q", "u", "e", "s", "t", " ", "S", "t", "r", "u", "c", "t", "u", "r", "e", ":", "\n", "{", "o", "o", "p", "s", "}", "\n", "B", "o", "d", "y", ":", "\n", "{", "\"", "b", "\"", ":", " ", "2", "}">>,
   <<"n", "o", "t", "e", "s", " ", "{", "\"", "n", "\"", ":", " ", "6", "}">>}
BlockLists == SeqsUpTo(BlockContents, MaxBlocks)

\* pages of small tables and literal blocks with different objects
TableA == Table(<<Row(L_URL, Cell(<<"/", "a">>)), Row(L_Method, Cell(<<"G", "E", "T">>))>>)
TableB == Table(<<Row(L_URL, Cell(<<"/", "b">>)), Row(L_Method, Cell(<<"P", "O", "S", "T">>))>>)
TableNoMethod == Table(<<Row(L_URL, Cell(<<"/", "c">>))>>)
CDataS1 == CData(<<"R", "e", "s", "p", "o", "n", "s", "e", " ", "S", "t", "r", "u", "c", "t", "u", "r", "e", ":", "{", "\"", "s", "\"", ":", "1", "}">>)
CDataS2 == CData(<<"R", "e", "s", "p", "o", "n", "s", "e", " ", "S", "t", "r", "u", "c", "t", "u", "r", "e", " ", "{", "\"", "s", "\"", ":", "2", "}">>)
CDataR == CData(<<"R", "e", "q", "u", "e", "s", "t", " ", "S", "t", "r", "u", "c", "t", "u", "r", "e", ":", "{", "\"", "r", "\"", ":", "3", "}">>)
\* a literal block that documents markup
CDataMarkup == CData(<<"<", "t", "a", "b", "l", "e", ">">>)
RegionElements == {TableA, TableB, TableNoMethod, CDataS1, CDataS2, CDataR, CDataMarkup}
TablePages == SeqsUpTo(RegionElements, MaxRegionElements)

\* the bodies of requests that name their own identifier
IdBodies ==
  {EmptyObj,
   Obj(<<<<<<"i", "d">>, Str(<<"0", "1">>)>>>>),
   Obj(<<<<<<"i", "d">>, Str(<<"I", "n", "f", "i", "n", "i", "t", "y">>)>>>>)}
\* the requests that add, update and delete the records of sch: the record
\* they name is record 1
IdRequests(sch) ==
  UNION {{[req EXCEPT !.body = b] :
            b \in IF HasBody(req.method) THEN IdBodies ELSE {EmptyObj}} :
         req \in {r \in EndpointRequests(sch) :
                    /\ r.method \in {"POST", "PUT", "PATCH", "DELETE"}
                    /\ \E i \in 1..Len(sch) : r.path = InstantiateFrom(sch[i].path, <<"1">>, 1)}}

\* the URLs of proxied requests: without a query string, with one and two
\* parameters, and with a repeated parameter
ProxiedUrls ==
  {<<"/", "z">>, <<"/", "z", "?", "a", "=", "1">>, <<"/", "z", "/", "y", "?", "a", "=", "1", "&", "b", "=", "2">>,
   <<"/", "z", "?", "a", "=", "1", "&", "a", "=", "2">>, <<"/", "z", "?", "q", "=">>}
\* the headers of proxied requests
ProxiedHeaders ==
  {Obj(<<<<<<"h", "o", "s", "t">>, Str(<<"m", "o", "c", "k">>)>>>>),
   Obj(<<<<<<"h", "o", "s", "t">>, Str(<<"m", "o", "c", "k">>)>>,
         <<<<"a", "c", "c", "e", "p", "t">>, Str(<<"*">>)>>>>)}
\* the requests that no route matches
ProxiedRequests ==
  {[method |-> m, path |-> u, headers |-> h, body |-> b] :
     m \in {"GET", "HEAD", "POST", "DELETE"}, u \in ProxiedUrls, h \in ProxiedHeaders,
     b \in {EmptyObj, Obj(<<<<<<"n", "a", "m", "e">>, Str(<<"n", "e", "w">>)>>>>)}}
\* the --fallback option of a proxying server
ProxyFallbacks ==
  {Str(<<"h", ":", "/", "/", "u">>), Str(<<"h", ":", "/", "/", "u", "/", "/">>), Str(<<"/">>)}

\* the URLs the fetcher is given: a file, a Windows file, a cloud page, a
\* cloud URL without page id, a page of another host that names the cloud
\* in its query, a page of another host, and a cloud page without scheme
FetchUrls ==
  {<<"f", "i", "l", "e", ":", "/", "/", "/", "t", "/", "p">>,
   <<"f", "i", "l", "e", ":", "/", "/", "/", "c", "|", "/", "p">>,
   <<"h", ":", "/", "/", "t", ".", "a", "t", "l", "a", "s", "s", "i", "a", "n", ".", "n", "e", "t", "/", "p", "a", "g", "e", "s", "/", "1", "2", "/", "T">>,
   <<"h", ":", "/", "/", "t", ".", "a", "t", "l", "a", "s", "s", "i", "a", "n", ".", "n", "e", "t", "/", "x">>,
   <<"h", ":", "/", "/", "w", ".", "i", "o", "/", "p", "a", "g", "e", "s", "/", "7", "?", "r", "=", ".", "a", "t", "l", "a", "s", "s", "i", "a", "n", ".", "n", "e", "t">>,
   <<"h", ":", "/", "/", "w", ".", "i", "o", "/", "p", "a", "g", "e", "s", "/", "7">>,
   <<"t", ".", "a", "t", "l", "a", "s", "s", "i", "a", "n", ".", "n", "e", "t", "/", "p", "a", "g", "e", "s", "/", "1">>}
\* CONFLUENCE_EMAIL and CONFLUENCE_API_TOKEN: unset, empty and set
Credentials == {Undefined, Str(<<>>), Str(<<"s">>)}
\* what the file system or the server does with the one read or request
FetchIos ==
  {[kind |-> "ok", status |-> 200], [kind |-> "no body", status |-> 200],
   [kind |-> "login page", status |-> 200], [kind |-> "read fails", status |-> 0],
   [kind |-> "status", status |-> 401], [kind |-> "status", status |-> 403],
   [kind |-> "status", status |-> 404], [kind |-> "status", status |-> 500],
   [kind |-> "network", status |-> 0]}

(***************************************************************************)
(* The state of a run.                                                     *)
(***************************************************************************)
VARIABLES
  schema,         \* the parsed schema startMockServer was called with
  pc,             \* "seeding", "serving" or "crashed"
  seedIdx,        \* the endpoint initFromSchema looks at next
  store,          \* DataStore.collections: key -> collection
  rng,            \* the state of the faker random source
  responseDelay,  \* the module variable responseDelay, a number of ms
  pending,        \* the requests that wait in sleep(), in arrival order
  last,           \* the latest answer given (or console line read)
  lastWrite,      \* the value of the latest write to the delay
  nreq,           \* the requests and console lines received so far
  fallbackUrl,    \* the --fallback option startMockServer was called with
  cli,            \* the run of the CLI action: its options and its steps
  proc,           \* the signals, timers and connections of the process
  exit,           \* <<>> while the process runs, then <<its exit>>
  call            \* the latest application of a function of the parser

\* the server behind its listener
serverVars == <<schema, pc, seedIdx, store, rng, responseDelay, pending, last, lastWrite, nreq>>
\* the process around the server
hostVars == <<fallbackUrl, cli, proc, exit, call>>
vars == <<schema, pc, seedIdx, store, rng, responseDelay, pending, last, lastWrite, nreq,
          fallbackUrl, cli, proc, exit, call>>

\* the CLI action before its first step
NoCli ==
  [step |-> "none", port |-> <<>>, delay |-> <<>>, fallback |-> Undefined, page |-> <<>>,
   trace |-> <<>>]
\* the process before any signal
NoProc == [signals |-> 0, clock |-> 0, timers |-> <<>>, closing |-> FALSE, conns |-> <<>>]
\* no function applied yet
NoCall == [fn |-> "none", arg |-> <<>>, result |-> <<>>]

NoRequest == [method |-> "", path |-> <<>>, body |-> Undefined]
NoResponse ==
  [n |-> 0, kind |-> "none", req |-> NoRequest, route |-> 0, status |-> 0,
   body |-> Undefined, waited |-> 0, written |-> Null]

\* startMockServer is entered with a schema and one of the delays
ServerStarts(delays) ==
  /\ schema \in Schemas
  /\ pc = "seeding"
  /\ seedIdx = 1
  /\ store = <<>>
  /\ rng \in Seeds
  /\ responseDelay \in delays
  /\ lastWrite = responseDelay
  /\ pending = <<>>
  /\ last = NoResponse
  /\ nreq = 0

Init ==
  /\ ServerStarts(StartDelays)
  /\ fallbackUrl = Undefined
  /\ cli = NoCli
  /\ proc = NoProc
  /\ exit = <<>>
  /\ call = NoCall

\* the length of a wait of d milliseconds, in half milliseconds
DelayTicks(d) == 2 * d[2] + (d[3] \div 5)
\* responseDelay > 0
DelayPositive(d) == NumLess(Num(0), d)

\* initFromSchema, one endpoint of the schema per step
SeedEndpoint ==
  /\ pc = "seeding"
  /\ seedIdx <= Len(schema)
  /\ \E s \in {InitFromEndpoint(store, rng, schema[seedIdx])} :
        /\ store' = s.store
        /\ rng' = s.r
        /\ pc' = IF s.threw THEN "crashed" ELSE "seeding"
        /\ seedIdx' = seedIdx + 1
  /\ UNCHANGED <<schema, responseDelay, pending, last, lastWrite, nreq, hostVars>>

\* the routes are registered and the server listens
StartListening ==
  /\ pc = "seeding"
  /\ seedIdx > Len(schema)
  /\ pc' = "serving"
  /\ UNCHANGED <<schema, seedIdx, store, rng, responseDelay, pending, last, lastWrite, nreq, hostVars>>

\* the body of the handler after its delay: it answers the request
Answer(req, route, waited, written) ==
  \E h \in {Handler(schema[route], store, rng, req)} :
     /\ store' = h.store
     /\ rng' = h.r
     /\ last' = [n |-> last.n + 1, kind |-> "endpoint", req |-> req, route |-> route,
                 status |-> h.status, body |-> h.body,
                 waited |-> waited, written |-> written]

\* a request to a documented endpoint while the delay is 0
ReceiveNow(req) ==
  /\ pc = "serving"
  /\ nreq < MaxRequests
  /\ ~DelayPositive(responseDelay)
  /\ \E route \in {Dispatch(schema, req)} :
       route # 0 /\ Answer(req, route, 0, lastWrite)
  /\ nreq' = nreq + 1
  /\ UNCHANGED <<schema, pc, seedIdx, responseDelay, pending, lastWrite, hostVars>>

\* a request to a documented endpoint while the delay is positive: the
\* handler sleeps for the delay it reads now
ReceiveDelayed(req) ==
  /\ pc = "serving"
  /\ nreq < MaxRequests
  /\ Len(pending) < MaxPending
  /\ DelayPositive(responseDelay)
  /\ \E route \in {Dispatch(schema, req)} :
       /\ route # 0
       /\ pending' = Append(pending, [req |-> req, route |-> route,
                                      remaining |-> DelayTicks(responseDelay),
                                      waited |-> 0, written |-> lastWrite])
  /\ nreq' = nreq + 1
  /\ UNCHANGED <<schema, pc, seedIdx, store, rng, responseDelay, last, lastWrite, hostVars>>

\* half a millisecond passes while no timer is due
Tick ==
  /\ pc = "serving"
  /\ Len(pending) > 0
  /\ \A i \in 1..Len(pending) : pending[i].remaining > 0
  /\ pending' = [i \in 1..Len(pending) |->
                   [pending[i] EXCEPT !.remaining = @ - 1, !.waited = @ + 1]]
  /\ UNCHANGED <<schema, pc, seedIdx, store, rng, responseDelay, last, lastWrite, nreq, hostVars>>

\* a due timer fires and its handler runs; due timers fire in arrival order
Wake ==
  /\ pc = "serving"
  /\ Len(pending) > 0
  /\ \E i \in 1..Len(pending) :
       /\ pending[i].remaining = 0
       /\ \A j \in 1..(i - 1) : pending[j].remaining > 0
       /\ Answer(pending[i].req, pending[i].route, pending[i].waited, pending[i].written)
       /\ pending' = SubSeq(pending, 1, i - 1) \o SubSeq(pending, i + 1, Len(pending))
  /\ UNCHANGED <<schema, pc, seedIdx, responseDelay, lastWrite, nreq, hostVars>>

\* a PUT /_config/delay that echoes the new delay without storing it
PutConfigDelayEchoOnly(body, current) ==
  LET Set(newDelay) ==
        IF Tag(newDelay) # "num" \/ NumLess(newDelay, Num(0))
        THEN [delay |-> current, status |-> 400,
              body |-> Obj(<<<<K_error, Str(<<"d", "e", "l", "a", "y">>)>>>>)]
        ELSE [delay |-> current, status |-> 200, body |-> Obj(<<<<K_delay, newDelay>>>>)]
  IN Set(GetField(body, K_delay))

\* the result of app.put('/_config/delay'): the delay, status and body
PutConfigDelay(body, current) ==
  LET Set(newDelay) ==
        IF Tag(newDelay) # "num" \/ NumLess(newDelay, Num(0))
        THEN [delay |-> current, status |-> 400,
              body |-> Obj(<<<<K_error, Str(<<"d", "e", "l", "a", "y">>)>>>>)]
        ELSE [delay |-> newDelay, status |-> 200, body |-> Obj(<<<<K_delay, newDelay>>>>)]
  IN Set(GetField(body, K_delay))

\* app.get('/_config/delay')
GetConfigDelay(current) == [status |-> 200, body |-> Obj(<<<<K_delay, current>>>>)]

\* GET /_config/delay
GetDelay ==
  LET req == [method |-> "GET", path |-> ConfigDelayPath, body |-> EmptyObj]
      g == GetConfigDelay(responseDelay)
  IN /\ pc = "serving"
     /\ nreq < MaxRequests
     /\ Dispatch(schema, req) = 0
     /\ last' = [n |-> last.n + 1, kind |-> "getdelay", req |-> req, route |-> 0,
                 status |-> g.status, body |-> g.body, waited |-> 0, written |-> lastWrite]
     /\ nreq' = nreq + 1
     /\ UNCHANGED <<schema, pc, seedIdx, store, rng, responseDelay, pending, lastWrite, hostVars>>

\* PUT /_config/delay
PutDelay(body) ==
  LET req == [method |-> "PUT", path |-> ConfigDelayPath, body |-> body]
  IN /\ pc = "serving"
     /\ nreq < MaxRequests
     /\ Dispatch(schema, req) = 0
     /\ \E p \in {PutConfigDelay(body, responseDelay)} :
          /\ responseDelay' = p.delay
          /\ lastWrite' = IF p.status = 200 THEN GetField(body, K_delay) ELSE lastWrite
          /\ last' = [n |-> last.n + 1, kind |-> "putdelay", req |-> req, route |-> 0,
                      status |-> p.status, body |-> p.body,
                      waited |-> 0, written |-> lastWrite]
     /\ nreq' = nreq + 1
     /\ UNCHANGED <<schema, pc, seedIdx, store, rng, pending, hostVars>>

\* a request no route matches, with no fallback configured
NotFound ==
  LET req == [method |-> "GET", path |-> UnknownPath, body |-> EmptyObj]
  IN /\ pc = "serving"
     /\ nreq < MaxRequests
     /\ Dispatch(schema, req) = 0
     /\ last' = [n |-> last.n + 1, kind |-> "notfound", req |-> req, route |-> 0,
                 status |-> 404,
                 body |-> Obj(<<<<K_error, Str(<<"E", "n", "d", "p", "o", "i", "n", "t">>)>>>>),
                 waited |-> 0, written |-> lastWrite]
     /\ nreq' = nreq + 1
     /\ UNCHANGED <<schema, pc, seedIdx, store, rng, responseDelay, pending, lastWrite, hostVars>>

RECURSIVE LeadingSpaces(_)
\* the number of white-space characters at the start of cs
LeadingSpaces(cs) ==
  IF Len(cs) > 0 /\ cs[1] = " " THEN 1 + LeadingSpaces(Tail(cs)) ELSE 0
Reverse(cs) == [i \in 1..Len(cs) |-> cs[Len(cs) + 1 - i]]
\* String.prototype.trim
Trim(cs) ==
  LET Between(leading, trailing) ==
        IF leading = Len(cs) THEN <<>>
        ELSE SubSeq(cs, leading + 1, Len(cs) - trailing)
  IN Between(LeadingSpaces(cs), LeadingSpaces(Reverse(cs)))

\* trimmed.match(/^delay\s+(\d+)$/): <<digits>> on a match, <<>> otherwise
MatchDelayCommand(trimmed) ==
  LET Digits(spaces, digits) ==
        IF spaces >= 1 /\ Len(digits) >= 1 /\ AllDigits(digits)
        THEN <<digits>> ELSE <<>>
      Spaces(rest, spaces) == Digits(spaces, SubSeq(rest, spaces + 1, Len(rest)))
      Rest(rest) == Spaces(rest, LeadingSpaces(rest))
  IN IF ~StartsWith(trimmed, K_delay) THEN <<>>
     ELSE Rest(SubSeq(trimmed, Len(K_delay) + 1, Len(trimmed)))

\* the 'line' listener of setupStdinDelayControl: the delay afterwards and
\* whether the line set it
StdinLine(line, current) ==
  LET OnMatch(match) ==
        IF match # <<>>
        THEN [delay |-> Num(CharsToNat(match[1])), set |-> TRUE]
        ELSE [delay |-> current, set |-> FALSE]
  IN OnMatch(MatchDelayCommand(ToLowerCase(Trim(line))))

\* a line arrives on the console
ConsoleLine(line) ==
  /\ pc = "serving"
  /\ nreq < MaxRequests
  /\ \E c \in {StdinLine(line, responseDelay)} :
       /\ responseDelay' = c.delay
       /\ lastWrite' = IF c.set THEN c.delay ELSE lastWrite
       /\ last' = [n |-> last.n + 1, kind |-> "console",
                   req |-> [method |-> "LINE", path |-> line, body |-> Undefined],
                   route |-> 0, status |-> IF c.set THEN 200 ELSE 0,
                   body |-> Undefined, waited |-> 0, written |-> lastWrite]
  /\ nreq' = nreq + 1
  /\ UNCHANGED <<schema, pc, seedIdx, store, rng, pending, hostVars>>

\* a request arrives while the delay is 0: Express hands it to the first
\* matching route, and to the final middleware when no route matches
Request(req, upstream) ==
  /\ pc = "serving"
  /\ exit = <<>>
  /\ nreq < MaxRequests
  /\ ~DelayPositive(responseDelay)
  /\ req.path # ConfigDelayPath
  /\ \E route \in {Dispatch(schema, req)} :
       IF route # 0
       THEN /\ Answer(req, route, 0, lastWrite)
            /\ call' = [fn |-> "route", arg |-> <<req>>, result |-> <<route>>]
       ELSE \E f \in {FallbackMiddleware(fallbackUrl, req, upstream)} :
              /\ last' = [n |-> last.n + 1, kind |-> "fallback", req |-> req, route |-> 0,
                          status |-> f.status, body |-> f.body,
                          waited |-> 0, written |-> lastWrite]
              /\ call' = [fn |-> "fallback", arg |-> <<req, upstream>>, result |-> <<f>>]
              /\ UNCHANGED <<store, rng>>
  /\ nreq' = nreq + 1
  /\ UNCHANGED <<schema, pc, seedIdx, responseDelay, pending, lastWrite,
                 fallbackUrl, cli, proc, exit>>

(***************************************************************************)
(* Shutdown: the signal handlers, the listener and the forced exit.        *)
(* proc.clock counts the milliseconds since the first signal.              *)
(***************************************************************************)
\* setTimeout(() => process.exit(1), 5000)
ShutdownTimeout == 5000

\* the time until the next timer is due: a response that waits in sleep()
\* or a forced exit; -1 when no timer is set
TimeToNextDue ==
  LET dues == {proc.conns[i].remaining : i \in {j \in 1..Len(proc.conns) :
                                                  proc.conns[j].state = "waiting"}}
                \cup {proc.timers[i] - proc.clock : i \in 1..Len(proc.timers)}
  IN IF dues = {} THEN 0 - 1 ELSE CHOOSE d \in dues : \A e \in dues : d <= e

\* a client connects and sends a request; its handler sleeps for the delay
Connect ==
  /\ pc = "serving"
  /\ exit = <<>>
  /\ ~proc.closing
  /\ Len(proc.conns) < MaxConns
  /\ proc' = [proc EXCEPT !.conns = Append(@, [state |-> "waiting",
                                               remaining |-> responseDelay[2]])]
  /\ UNCHANGED <<serverVars, fallbackUrl, cli, exit, call>>

\* the handler's timer fires and the response is sent; the connection then
\* ends, or stays open as an idle keep-alive connection
Respond(i, keepAlive) ==
  /\ exit = <<>>
  /\ i \in 1..Len(proc.conns)
  /\ proc.conns[i].state = "waiting"
  /\ proc.conns[i].remaining = 0
  /\ proc' = [proc EXCEPT !.conns =
                IF keepAlive THEN [@ EXCEPT ![i].state = "idle"]
                ELSE SubSeq(@, 1, i - 1) \o SubSeq(@, i + 1, Len(@))]
  /\ UNCHANGED <<serverVars, fallbackUrl, cli, exit, call>>

\* an idle connection ends
Hangup(i) ==
  /\ exit = <<>>
  /\ i \in 1..Len(proc.conns)
  /\ proc.conns[i].state = "idle"
  /\ proc' = [proc EXCEPT !.conns = SubSeq(@, 1, i - 1) \o SubSeq(@, i + 1, Len(@))]
  /\ UNCHANGED <<serverVars, fallbackUrl, cli, exit, call>>

\* a shutdown() in which every signal restarts the one timer
SignalRestartingTimer ==
  /\ pc = "serving"
  /\ exit = <<>>
  /\ proc.signals < MaxSignals
  /\ proc' = [proc EXCEPT !.signals = @ + 1,
                          !.closing = TRUE,
                          !.timers = <<proc.clock + ShutdownTimeout>>]
  /\ UNCHANGED <<serverVars, fallbackUrl, cli, exit, call>>

\* SIGINT or SIGTERM: shutdown() calls server.close(callback) and sets a
\* timer of 5000 ms
Signal ==
  /\ pc = "serving"
  /\ exit = <<>>
  /\ proc.signals < MaxSignals
  /\ proc' = [proc EXCEPT !.signals = @ + 1,
                          !.closing = TRUE,
                          !.timers = Append(@, proc.clock + ShutdownTimeout)]
  /\ UNCHANGED <<serverVars, fallbackUrl, cli, exit, call>>

\* d milliseconds pass in which no timer is due
Elapse(d) ==
  /\ pc = "serving"
  /\ exit = <<>>
  /\ d > 0
  /\ d <= TimeToNextDue
  /\ proc' = [proc EXCEPT
                !.clock = IF proc.signals > 0 THEN @ + d ELSE @,
                !.conns = [i \in 1..Len(proc.conns) |->
                             IF proc.conns[i].state = "waiting"
                             THEN [proc.conns[i] EXCEPT !.remaining = @ - d]
                             ELSE proc.conns[i]]]
  /\ UNCHANGED <<serverVars, fallbackUrl, cli, exit, call>>

\* the listener emits 'close' once it is closing and no connection is
\* left: the callback of server.close runs process.exit(0)
ListenerClosed ==
  /\ exit = <<>>
  /\ proc.closing
  /\ proc.conns = <<>>
  /\ exit' = <<[code |-> 0, at |-> proc.clock]>>
  /\ UNCHANGED <<serverVars, fallbackUrl, cli, proc, call>>

\* a timer of shutdown() fires: process.exit(1)
ForceExit ==
  /\ exit = <<>>
  /\ \E i \in 1..Len(proc.timers) : proc.timers[i] <= proc.clock
  /\ exit' = <<[code |-> 1, at |-> proc.clock]>>
  /\ UNCHANGED <<serverVars, fallbackUrl, cli, proc, call>>

\* the CLI's parse of a fetched page: parseERDFromHTML, then validateSchema
ParsePage(doc) ==
  /\ call = NoCall
  /\ \E endpoints \in {parseERDFromHTML(doc)} :
       call' = [fn |-> "parseERDFromHTML",
                arg |-> doc,
                result |-> [schema |-> endpoints, threw |-> validateSchema(endpoints)]]
  /\ UNCHANGED <<serverVars, fallbackUrl, cli, proc, exit>>

\* GET /health builds the entry of an endpoint documented at path
HealthEntry(path) ==
  /\ call = NoCall
  /\ call' = [fn |-> "examplePath",
              arg |-> path,
              result |-> [path |-> convertPathParams(path),
                          example |-> ExamplePath(convertPathParams(path))]]
  /\ UNCHANGED <<serverVars, fallbackUrl, cli, proc, exit>>

\* registerEndpoint and initFromSchema derive the collection key of a path
CollectionKey(segments) ==
  /\ call = NoCall
  /\ call' = [fn |-> "extractCollectionKey",
              arg |-> [segments |-> segments, path |-> JoinPath(segments, 1)],
              result |-> extractCollectionKey(JoinPath(segments, 1))]
  /\ UNCHANGED <<serverVars, fallbackUrl, cli, proc, exit>>

\* a handler generates data from a template with the generator in state r
Generate(template, r) ==
  /\ call = NoCall
  /\ call' = [fn |-> "generateFakeData",
              arg |-> [template |-> template, r |-> r],
              result |-> generateFakeData(template, r).v]
  /\ UNCHANGED <<serverVars, fallbackUrl, cli, proc, exit>>

\* process.exit(code)
Exits(code) == exit' = <<[code |-> code, at |-> proc.clock]>>

\* the options are parsed and checked without the check of the delay, as in
\* the earlier snapshot of the CLI
CheckOptionsWithoutDelay ==
  /\ cli.step = "options"
  /\ IF InvalidPort(ParseInt(cli.port))
     THEN /\ cli' = [cli EXCEPT !.step = "exited", !.trace = Append(@, "rejected")]
          /\ Exits(1)
     ELSE /\ cli' = [cli EXCEPT !.step = "fetching", !.trace = Append(@, "fetch")]
          /\ exit' = exit
  /\ UNCHANGED <<serverVars, fallbackUrl, proc, call>>

\* the action up to its first await: the options are parsed and checked,
\* then the page is requested
CheckOptions ==
  /\ cli.step = "options"
  /\ IF InvalidPort(ParseInt(cli.port)) \/ InvalidDelay(ParseInt(cli.delay))
     THEN /\ cli' = [cli EXCEPT !.step = "exited", !.trace = Append(@, "rejected")]
          /\ Exits(1)
     ELSE /\ cli' = [cli EXCEPT !.step = "fetching", !.trace = Append(@, "fetch")]
          /\ exit' = exit
  /\ UNCHANGED <<serverVars, fallbackUrl, proc, call>>

\* fetchConfluencePage rejects: the catch block prints the error and exits
FetchFails ==
  /\ cli.step = "fetching"
  /\ cli' = [cli EXCEPT !.step = "exited", !.trace = @ \o <<"fetch failed", "caught">>]
  /\ Exits(1)
  /\ UNCHANGED <<serverVars, fallbackUrl, proc, call>>

\* fetchConfluencePage resolves with the page
FetchSucceeds(page) ==
  /\ cli.step = "fetching"
  /\ cli' = [cli EXCEPT !.step = "fetched", !.page = page, !.trace = Append(@, "page")]
  /\ UNCHANGED <<serverVars, fallbackUrl, proc, exit, call>>

\* the page is parsed and the schema validated; startMockServer is called
\* with a schema that is not empty: it sets the delay and begins to seed
ParseAndStart ==
  /\ cli.step = "fetched"
  /\ \E endpoints \in {parseERDFromHTML(cli.page)} :
       IF validateSchema(endpoints)
       THEN /\ cli' = [cli EXCEPT !.step = "exited",
                                  !.trace = @ \o <<"schema empty", "caught">>]
            /\ Exits(1)
            /\ UNCHANGED <<serverVars, fallbackUrl>>
       ELSE /\ cli' = [cli EXCEPT !.step = "starting", !.trace = @ \o <<"schema", "start">>]
            /\ schema' = endpoints
            /\ pc' = "seeding"
            /\ responseDelay' = ParseInt(cli.delay)
            /\ lastWrite' = ParseInt(cli.delay)
            /\ fallbackUrl' = cli.fallback
            /\ UNCHANGED <<seedIdx, store, rng, pending, last, nreq, exit>>
  /\ UNCHANGED <<proc, call>>

\* startMockServer throws while it seeds the store: the catch block of the
\* action prints the error and exits
StartFails ==
  /\ cli.step = "starting"
  /\ pc = "crashed"
  /\ cli' = [cli EXCEPT !.step = "exited", !.trace = @ \o <<"start failed", "caught">>]
  /\ Exits(1)
  /\ UNCHANGED <<serverVars, fallbackUrl, proc, call>>

\* app.listen cannot bind the port: the server emits 'error' after
\* startMockServer has returned; no listener is registered for it, so it is
\* thrown as an uncaught exception and ends the process
ListenFails ==
  /\ cli.step = "starting"
  /\ pc = "seeding"
  /\ seedIdx > Len(schema)
  /\ pc' = "listen failed"
  /\ cli' = [cli EXCEPT !.step = "exited", !.trace = @ \o <<"listen failed", "unhandled">>]
  /\ Exits(1)
  /\ UNCHANGED <<schema, seedIdx, store, rng, responseDelay, pending, last, lastWrite, nreq,
                 fallbackUrl, proc, call>>

\* extractFromAssociatedBlocks looks for the object after a marker
ExtractJson(text, marker) ==
  /\ call = NoCall
  /\ call' = [fn |-> "extractCompleteJSON",
              arg |-> [text |-> text, marker |-> marker],
              result |-> extractCompleteJSON(text, marker)]
  /\ UNCHANGED <<serverVars, fallbackUrl, cli, proc, exit>>

\* parseTableBasedEndpoints takes the templates of a table from its blocks
ExtractTemplates(blocks) ==
  /\ call = NoCall
  /\ call' = [fn |-> "extractFromAssociatedBlocks",
              arg |-> blocks,
              result |-> extractFromAssociatedBlocks(blocks)]
  /\ UNCHANGED <<serverVars, fallbackUrl, cli, proc, exit>>

\* parseERDFromHTML runs the table strategy on a page
ParseTables(doc) ==
  /\ call = NoCall
  /\ call' = [fn |-> "parseTableBasedEndpoints",
              arg |-> doc,
              result |-> parseTableBasedEndpoints(doc)]
  /\ UNCHANGED <<serverVars, fallbackUrl, cli, proc, exit>>

\* the final middleware proxies a request that no route matched
Proxy(req) ==
  /\ call = NoCall
  /\ Truthy(fallbackUrl)
  /\ call' = [fn |-> "axios", arg |-> req, result |-> UpstreamRequest(fallbackUrl, req)]
  /\ UNCHANGED <<serverVars, fallbackUrl, cli, proc, exit>>

\* fetchConfluencePage is called: it takes a mode and starts the read or
\* the request of the mode
FetchBegins(url, email, token) ==
  /\ call = NoCall
  /\ \E mode \in {FetchMode(url, email, token)} :
       call' = [fn |-> "fetchConfluencePage",
                arg |-> [url |-> url, email |-> email, token |-> token],
                result |-> [mode |-> mode, done |-> FALSE,
                            reads |-> IF mode = "file" THEN <<LocalFilePath(url)>> ELSE <<>>,
                            requests |-> IF mode = "rest" THEN <<RestRequest(url, email, token)>>
                                         ELSE IF mode = "direct"
                                         THEN <<DirectRequest(url, email, token)>>
                                         ELSE <<>>,
                            outcome |-> "pending", errors |-> <<>>]]
  /\ UNCHANGED <<serverVars, fallbackUrl, cli, proc, exit>>

\* the read or the request ends and fetchConfluencePage returns or throws
FetchEnds(io) ==
  /\ call.fn = "fetchConfluencePage"
  /\ ~call.result.done
  /\ io.kind \in (IF call.result.mode = "file" THEN {"ok", "read fails"}
                  ELSE IF call.result.mode = "rest"
                  THEN {"ok", "no body", "status", "network"}
                  ELSE {"ok", "login page", "status", "network"})
  /\ \E end \in {FetchOutcome(call.result.mode, io)} :
       call' = [call EXCEPT !.result.done = TRUE,
                            !.result.outcome = end.outcome,
                            !.result.errors = end.errors]
  /\ UNCHANGED <<serverVars, fallbackUrl, cli, proc, exit>>

Next ==
  \/ SeedEndpoint
  \/ StartListening
  \/ \E req \in EndpointRequests(schema) : ReceiveNow(req)
  \/ \E req \in EndpointRequests(schema) : ReceiveDelayed(req)
  \/ Tick
  \/ Wake
  \/ GetDelay
  \/ \E body \in DelayBodies : PutDelay(body)
  \/ NotFound
  \/ \E line \in ConsoleLines : ConsoleLine(line)

\* the server with every schema, every start delay and every request
Spec == Init /\ [][Next]_vars

\* the server started without a delay, whose delay nobody changes: the
\* handlers run as soon as their requests arrive
InitStore == Init /\ responseDelay = Num(0)
NextStore ==
  \/ SeedEndpoint
  \/ StartListening
  \/ \E req \in EndpointRequests(schema) : ReceiveNow(req)
  \/ NotFound
SpecStore == InitStore /\ [][NextStore]_vars

\* the server of a schema without seeded collections, with every way of
\* reading and writing the delay
InitDelay == Init /\ schema = SchemaLazy
SpecDelay == InitDelay /\ [][Next]_vars

\* the server with and without a fallback, answering as requests arrive
InitFallback ==
  /\ ServerStarts(StartDelays)
  /\ schema = SchemaLazy
  /\ rng = 0
  /\ responseDelay = Num(0)
  /\ fallbackUrl \in FallbackUrls
  /\ cli = NoCli
  /\ proc = NoProc
  /\ exit = <<>>
  /\ call = NoCall
NextFallback ==
  \/ SeedEndpoint
  \/ StartListening
  \/ \E req \in AnyRequests(schema), upstream \in Upstreams : Request(req, upstream)
SpecFallback ==
  InitFallback /\ [][NextFallback]_vars

\* the server from its start to the exit of the process, with requests,
\* signals and the passing of time
InitShutdown ==
  /\ ServerStarts(ShutdownDelays)
  /\ schema = SchemaLazy
  /\ rng = 0
  /\ fallbackUrl = Undefined
  /\ cli = NoCli
  /\ proc = NoProc
  /\ exit = <<>>
  /\ call = NoCall
TimePasses == \E d \in ElapseSteps \cup {TimeToNextDue} : Elapse(d)
ResponseSent == \E i \in 1..MaxConns, keepAlive \in BOOLEAN : Respond(i, keepAlive)
NextShutdown ==
  \/ SeedEndpoint
  \/ StartListening
  \/ Connect
  \/ ResponseSent
  \/ \E i \in 1..MaxConns : Hangup(i)
  \/ Signal
  \/ TimePasses
  \/ ListenerClosed
  \/ ForceExit
\* time passes and due timers and events of the event loop run; clients
\* are free to keep their idle connections open for ever
SpecShutdown ==
  /\ InitShutdown
  /\ [][NextShutdown]_vars
  /\ WF_vars(TimePasses)
  /\ WF_vars(ResponseSent)
  /\ WF_vars(ListenerClosed)
  /\ WF_vars(ForceExit)

(***************************************************************************)
(* The parser applied to pages.                                            *)
(***************************************************************************)
InitParser == Init /\ schema = SchemaLazy /\ rng = 0 /\ responseDelay = Num(0)

NextParser == \E doc \in Pages : ParsePage(doc)

SpecParser == InitParser /\ [][NextParser]_vars

(***************************************************************************)
(* The path functions and the generator applied to their inputs.           *)
(***************************************************************************)
InitFunctions == Init /\ schema = SchemaLazy /\ rng = 0 /\ responseDelay = Num(0)

NextFunctions ==
  \/ \E segments \in SegmentLists : HealthEntry(JoinPath(segments, 1))
  \/ \E segments \in SegmentLists : CollectionKey(segments)
  \/ \E template \in Templates, r \in GeneratorStates : Generate(template, r)

SpecFunctions == InitFunctions /\ [][NextFunctions]_vars

(***************************************************************************)
(* A run of the CLI from its options to the listening server.              *)
(***************************************************************************)
InitCli ==
  /\ schema = <<>>
  /\ pc = "cli"
  /\ seedIdx = 1
  /\ store = <<>>
  /\ rng \in Seeds
  /\ responseDelay = Num(0)
  /\ lastWrite = Num(0)
  /\ pending = <<>>
  /\ last = NoResponse
  /\ nreq = 0
  /\ fallbackUrl = Undefined
  /\ \E port \in PortOptions, delay \in DelayOptions, fallback \in FallbackOptions :
       cli = [NoCli EXCEPT !.step = "options", !.port = port, !.delay = delay,
                           !.fallback = fallback]
  /\ proc = NoProc
  /\ exit = <<>>
  /\ call = NoCall

NextCli ==
  \/ CheckOptions
  \/ FetchFails
  \/ \E page \in FetchedPages : FetchSucceeds(page)
  \/ ParseAndStart
  \/ SeedEndpoint
  \/ StartFails
  \/ StartListening
  \/ ListenFails

SpecCli == InitCli /\ [][NextCli]_vars

(***************************************************************************)
(* The extraction of templates from literal blocks.                        *)
(***************************************************************************)
InitBlocks == Init /\ schema = SchemaLazy /\ rng = 0 /\ responseDelay = Num(0)

NextBlocks ==
  \/ \E text \in LiteralTexts, marker \in Markers : ExtractJson(text, marker)
  \/ \E blocks \in BlockLists : ExtractTemplates(blocks)

SpecBlocks == InitBlocks /\ [][NextBlocks]_vars

(***************************************************************************)
(* The table strategy applied to pages of tables and literal blocks.       *)
(***************************************************************************)
InitTables == Init /\ schema = SchemaLazy /\ rng = 0 /\ responseDelay = Num(0)

NextTables == \E doc \in TablePages : ParseTables(doc)

SpecTables == InitTables /\ [][NextTables]_vars

\* the requests to the endpoints of sch that change the store: the item
\* they name is item 1, their body is empty or a name
MutatingRequests(sch) ==
  {req \in EndpointRequests(sch) :
     /\ req.method \in {"POST", "PUT", "PATCH", "DELETE"}
     /\ \E i \in 1..Len(sch) : req.path = InstantiateFrom(sch[i].path, <<"1">>, 1)
     /\ req.body \in {EmptyObj, Obj(<<<<<<"n", "a", "m", "e">>, Str(<<"n", "e", "w">>)>>>>)}}
\* what ReceiveDelayed queues for a request received under delay d
Sleeping(req, d, written) ==
  [req |-> req, route |-> Dispatch(schema, req), remaining |-> DelayTicks(d),
   waited |-> 0, written |-> written]
\* the server of the lazy schema, listening under a delay of one
\* millisecond, idle or with one mutating request received and sleeping;
\* then requests arrive, the delay is changed and time passes
InitOrder ==
  /\ schema = SchemaLazy
  /\ pc = "serving"
  /\ seedIdx = Len(schema) + 1
  /\ rng = 0
  /\ \E s \in {initFromSchema(schema, rng)} : ~s.threw /\ store = s.store
  /\ responseDelay = Num(1)
  /\ lastWrite = responseDelay
  /\ pending \in {<<>>} \cup {<<Sleeping(req, responseDelay, lastWrite)>> :
                                 req \in MutatingRequests(schema)}
  /\ last = NoResponse
  /\ nreq = 0
  /\ fallbackUrl = Undefined
  /\ cli = NoCli
  /\ proc = NoProc
  /\ exit = <<>>
  /\ call = NoCall
NextOrder ==
  \/ \E req \in MutatingRequests(schema) : ReceiveNow(req)
  \/ \E req \in MutatingRequests(schema) : ReceiveDelayed(req)
  \/ Tick
  \/ Wake
  \/ \E body \in DelayBodies : PutDelay(body)
  \/ \E line \in ConsoleLines : ConsoleLine(line)
SpecOrder == InitOrder /\ [][NextOrder]_vars

\* the server of a seeded and of a lazily created collection, whose
\* records are added, updated and deleted with and without a delay
InitIds == Init /\ schema \in {SchemaCrud, SchemaLazy} /\ rng = 0
NextIds ==
  \/ SeedEndpoint
  \/ StartListening
  \/ \E req \in IdRequests(schema) : ReceiveNow(req)
  \/ \E req \in IdRequests(schema) : ReceiveDelayed(req)
  \/ Tick
  \/ Wake
SpecIds == InitIds /\ [][NextIds]_vars

\* the server of a collection key that no endpoint seeds, answering as
\* requests arrive
InitUnseeded ==
  /\ schema = SchemaUnseeded
  /\ pc = "seeding"
  /\ seedIdx = 1
  /\ store = <<>>
  /\ rng \in GeneratorStates
  /\ responseDelay = Num(0)
  /\ lastWrite = responseDelay
  /\ pending = <<>>
  /\ last = NoResponse
  /\ nreq = 0
  /\ fallbackUrl = Undefined
  /\ cli = NoCli
  /\ proc = NoProc
  /\ exit = <<>>
  /\ call = NoCall
SpecUnseeded == InitUnseeded /\ [][NextStore]_vars

\* the final middleware of a server with a fallback, applied to requests
InitProxy ==
  /\ schema = SchemaLazy
  /\ pc = "serving"
  /\ seedIdx = Len(schema) + 1
  /\ store = <<>>
  /\ rng = 0
  /\ responseDelay = Num(0)
  /\ lastWrite = responseDelay
  /\ pending = <<>>
  /\ last = NoResponse
  /\ nreq = 0
  /\ fallbackUrl \in ProxyFallbacks
  /\ cli = NoCli
  /\ proc = NoProc
  /\ exit = <<>>
  /\ call = NoCall
NextProxy == \E req \in ProxiedRequests : Proxy(req)
SpecProxy == InitProxy /\ [][NextProxy]_vars

\* calls of the page fetcher
InitFetch == Init /\ schema = SchemaLazy /\ rng = 0 /\ responseDelay = Num(0)
NextFetch ==
  \/ \E url \in FetchUrls, email \in Credentials, token \in Credentials :
       FetchBegins(url, email, token)
  \/ \E io \in FetchIos : FetchEnds(io)
SpecFetch == InitFetch /\ [][NextFetch]_vars

(***************************************************************************)
(* Properties of the store while it is seeded.                             *)
(***************************************************************************)
\* the first endpoint of the schema, in schema order, that is a GET endpoint
\* mapping to key and whose response holds a non-empty array; 0 when none
FirstSeeder(key) ==
  LET c == {i \in 1..Len(schema) :
              /\ schema[i].method = "GET"
              /\ extractCollectionKey(schema[i].path) = key
              /\ findArrayInResponse(schema[i].response) # NoArray}
  IN IF c = {} THEN 0 ELSE CHOOSE i \in c : \A j \in c : i <= j

\* right after seeding every collection holds 15 to 30 records numbered
\* 1..n in order, with the template and wrapper of its first seeder
SeededByFirst ==
  (pc = "serving" /\ nreq = 0) =>
    \A key \in DOMAIN store :
      LET col == store[key]
          seeder == FirstSeeder(key)
      IN /\ Len(col.items) \in 15..30
         /\ \A i \in 1..Len(col.items) :
              /\ findIdField(col.items[i]) # Null
              /\ GetField(col.items[i], findIdField(col.items[i])[2]) = Num(i)
         /\ seeder # 0
         /\ col.template = findArrayInResponse(schema[seeder].response)[1].templateItem
         /\ col.wrapper = findArrayInResponse(schema[seeder].response)[1].wrapper

\* a seeding step leaves every collection that exists as it is
SeedingKeeps ==
  pc = "seeding" =>
    \A key \in DOMAIN store : key \in DOMAIN store' /\ store'[key] = store[key]

\* C1: after initFromSchema every seeded collection holds between 15 and 30
\* records whose identifiers are exactly 1..n in order, seeded by the first
\* GET endpoint of its key whose response yields a non-empty array, and no
\* later endpoint of the same key changes its records, template or wrapper
C1_SeededOnce == []SeededByFirst /\ [][SeedingKeeps]_vars

\* a wrapped collection of 30 records is served although a later list
\* endpoint maps to its key
C1_Witness ==
  /\ pc = "serving"
  /\ nreq = 0
  /\ schema = SchemaWrapped
  /\ <<"w">> \in DOMAIN store
  /\ Len(store[<<"w">>].items) = 30
  /\ store[<<"w">>].wrapper # NoWrapper

(***************************************************************************)
(* Properties of the handlers.  A step answers a request when it advances  *)
(* last.n; last' then holds the request, the route and the answer.         *)
(***************************************************************************)
\* the step answers a request to a documented endpoint with one of methods
Answers(methods) ==
  /\ last'.n = last.n + 1
  /\ last'.kind = "endpoint"
  /\ last'.req.method \in methods

\* the collection key of the endpoint that answers in this step
AnsweredKey == extractCollectionKey(schema[last'.route].path)

\* the last segment of the request path: the id the client names
RequestedId ==
  LET segments == Split(last'.req.path, "/") IN segments[Len(segments)]

\* every collection but key is as it was, and key keeps template and wrapper
OnlyItemsOf(key) ==
  /\ DOMAIN store' = DOMAIN store
  /\ \A k \in DOMAIN store \ {key} : store'[k] = store[k]
  /\ store'[key].template = store[key].template
  /\ store'[key].wrapper = store[key].wrapper

\* the identifier of a record as a number, 0 when it has none or it is not
\* numeric
NumericId(item) ==
  LET f == findIdField(item)
      v == IF f = Null THEN NaN ELSE ToNumber(GetField(item, f[2]))
  IN IF IsNaN(v) THEN Num(0) ELSE v

\* the greatest numeric identifier among items, 0 for no items
MaxNumericId(items) ==
  LET ids == {Num(0)} \cup {NumericId(items[i]) : i \in 1..Len(items)}
  IN CHOOSE m \in ids : \A o \in ids : ~NumLess(m, o)

\* a POST to an existing collection appends one record numbered max + 1
\* that carries the fields of the body, and returns it
AppendsOne ==
  (Answers({"POST"}) /\ AnsweredKey \in DOMAIN store) =>
    LET old == store[AnsweredKey].items
        new == store'[AnsweredKey].items
        item == new[Len(new)]
        body == BodyObject(last'.req.body)
    IN /\ Len(new) = Len(old) + 1
       /\ SubSeq(new, 1, Len(old)) = old
       /\ OnlyItemsOf(AnsweredKey)
       /\ findIdField(item) # Null
       /\ GetField(item, findIdField(item)[2]) = NumPlusOne(MaxNumericId(old))
       /\ \A i \in 1..Len(body[2]) :
            body[2][i][1] # findIdField(item)[2]
              => GetField(item, body[2][i][1]) = body[2][i][2]
       /\ last'.body = item

\* C2: addItem on an existing collection appends exactly one record whose
\* identifier is 1 + the greatest numeric identifier held by the collection
\* (non-numeric or absent counted as 0), whose other fields are the body's
\* where the body supplies them, and leaves every earlier record unchanged
C2_AddItemAppends == [][AppendsOne]_vars

\* a record was deleted from the middle of a seeded collection and a record
\* with a name was added after it: it is numbered past the greatest
\* identifier, not by the length of the collection
C2_Witness ==
  /\ nreq = 2
  /\ last.kind = "endpoint"
  /\ last.req.method = "POST"
  /\ schema = SchemaCrud
  /\ Len(store[<<"u">>].items) = 15
  /\ GetField(last.body, K_id) = Num(16)
  /\ GetField(last.body, K_name) = Str(<<"n", "e", "w">>)
  /\ store[<<"u">>].items[15] = last.body

\* the position in the answered collection of the record the request names;
\* 0 when the collection does not exist or holds no such record
NamedIndex ==
  IF AnsweredKey \in DOMAIN store
  THEN FindIndex(store[AnsweredKey].items, RequestedId)
  ELSE 0

\* a PUT or PATCH that names an existing record keeps it findable by the
\* same id at the same position, changes only the fields the body names and
\* changes no other record
UpdateKeeps ==
  (Answers({"PUT", "PATCH"}) /\ NamedIndex # 0) =>
    LET old == store[AnsweredKey].items
        new == store'[AnsweredKey].items
        idx == NamedIndex
        updates == BodyObject(last'.req.body)
    IN /\ Len(new) = Len(old)
       /\ OnlyItemsOf(AnsweredKey)
       /\ \A i \in 1..Len(old) : i # idx => new[i] = old[i]
       /\ FindIndex(new, RequestedId) = idx
       /\ \A i \in 1..Len(old[idx][2]) :
            ~HasKey(updates, old[idx][2][i][1])
              => GetField(new[idx], old[idx][2][i][1]) = old[idx][2][i][2]
       /\ \A i \in 1..Len(new[idx][2]) :
            HasKey(old[idx], new[idx][2][i][1]) \/ HasKey(updates, new[idx][2][i][1])

\* C3: updateItem on an existing record, for any updates object, leaves the
\* record findable by the same id afterwards, keeps its position, changes
\* only the fields named in updates, and changes no other record
C3_UpdateKeepsRecord == [][UpdateKeeps]_vars

\* a DELETE that names a record removes that one record and answers 204; a
\* PUT, PATCH or DELETE that names no record answers 404 with an error body
\* and changes nothing, and the server goes on serving
DeleteOrNotFound ==
  /\ (Answers({"DELETE"}) /\ NamedIndex # 0) =>
       LET old == store[AnsweredKey].items
           new == store'[AnsweredKey].items
       IN /\ last'.status = 204
          /\ Len(new) = Len(old) - 1
          /\ new = SubSeq(old, 1, NamedIndex - 1) \o SubSeq(old, NamedIndex + 1, Len(old))
          /\ OnlyItemsOf(AnsweredKey)
          /\ pc' = "serving"
  /\ (Answers({"PUT", "PATCH", "DELETE"}) /\ NamedIndex = 0) =>
       /\ last'.status = 404
       /\ IsPlainObject(last'.body)
       /\ HasKey(last'.body, K_error)
       /\ store' = store
       /\ pc' = "serving"

ShellKept(key) ==
  LET response == schema[FirstSeeder(key)].response
      result == getCollection(store, key)
      arrayKey == store[key].wrapper[1].arrayKey
  IN /\ IsPlainObject(result)
     /\ Len(result[2]) = Len(response[2])
     /\ \A i \in 1..Len(response[2]) :
          IF response[2][i][1] = arrayKey
          THEN GetField(result, arrayKey) = Arr(store[key].items)
          ELSE GetField(result, response[2][i][1]) = response[2][i][2]
     /\ IsArray(GetField(response, arrayKey))

\* C5: for a collection seeded from an object response with an array
\* property, getCollection returns at every point an object that holds
\* every shell property with its template value and the current records
\* under the original array property name, whatever was added, updated or
\* deleted; a list request is answered with that object
C5_ShellPreserved ==
  /\ \A key \in DOMAIN store : store[key].wrapper # NoWrapper => ShellKept(key)
  /\ (/\ last.kind = "endpoint"
      /\ last.req.method = "GET"
      /\ extractCollectionKey(last.req.path) \in DOMAIN store
      /\ last.req.path = schema[last.route].path
      /\ store[extractCollectionKey(last.req.path)].wrapper # NoWrapper)
     => last.body = getCollection(store, extractCollectionKey(last.req.path))

\* the wrapped collection is read after a record was added to its 30
C5_Witness ==
  /\ nreq = 2
  /\ schema = SchemaWrapped
  /\ last.kind = "endpoint"
  /\ last.req.method = "GET"
  /\ last.req.path = <<"/", "w">>
  /\ GetField(last.body, <<"e", "r", "r", "o", "r", "s">>) = Bool(FALSE)
  /\ GetField(last.body, K_total) = Num(1)
  /\ IsArray(GetField(last.body, <<"d", "a", "t", "a">>))
  /\ Len(GetField(last.body, <<"d", "a", "t", "a">>)[2]) = 31

\* a GET changes no collection, and a list request answered right after the
\* same list request returns the same body
GetReadsOnly ==
  Answers({"GET"}) =>
    /\ store' = store
    /\ (/\ last.kind = "endpoint"
        /\ last.req = last'.req
        /\ AnsweredKey \in DOMAIN store
        /\ last'.req.path = schema[last'.route].path)
       => last'.body = last.body

\* C6: no GET request changes the record store: collection reads, by-id
\* hits and by-id misses leave every collection's records unchanged, so two
\* reads of the same collection with no write in between return identical
\* records
C6_GetReadsOnly == [][GetReadsOnly]_vars

\* a by-id miss on a seeded collection was answered with a generated value
\* after an earlier request, and the collection still holds its 15 records
C6_Witness ==
  /\ nreq = 2
  /\ schema = SchemaCrud
  /\ last.kind = "endpoint"
  /\ last.req.method = "GET"
  /\ last.req.path = <<"/", "u", "/", "x">>
  /\ last.status = 200
  /\ IsPlainObject(last.body)
  /\ Len(store[<<"u">>].items) = 15
  /\ \A i \in 1..15 : store[<<"u">>].items[i] # last.body

\* the endpoints of the schema documented with the method and the path of
\* the latest request
SameMethodAndPath ==
  {i \in 1..Len(schema) :
     schema[i].method = last.req.method /\ schema[i].path = last.req.path}

\* the latest answer has the status of endpoint i and a body with the
\* properties of its response template
AnsweredAs(i) ==
  /\ Num(last.status) = schema[i].status
  /\ IsPlainObject(last.body)
  /\ Len(last.body[2]) = Len(schema[i].response[2])
  /\ \A j \in 1..Len(schema[i].response[2]) :
       HasKey(last.body, schema[i].response[2][j][1])

\* the latest answer went to a method and path documented more than once
AnsweredDuplicate ==
  /\ last.kind = "endpoint"
  /\ Cardinality(SameMethodAndPath) >= 2

C8_DefaultStatusByMethod ==
  (/\ last.kind = "endpoint"
   /\ schema[last.route].status = Undefined
   /\ last.status \notin {204, 404})
  => last.status = IF schema[last.route].method = "POST" THEN 201 ELSE 200

(***************************************************************************)
(* Properties of the runtime delay.                                        *)
(***************************************************************************)
\* C9: GET /_config/delay reports the value of the latest successful write
\* to the delay (the start value, a PUT /_config/delay or a console
\* command), and a request to a documented endpoint that arrives after that
\* write waits that many milliseconds before its handler runs
C9_DelayFollowsLastWrite ==
  /\ GetConfigDelay(responseDelay).body = Obj(<<<<K_delay, lastWrite>>>>)
  /\ last.kind = "getdelay" =>
       last.status = 200 /\ last.body = Obj(<<<<K_delay, last.written>>>>)
  /\ last.kind = "endpoint" => last.waited = DelayTicks(last.written)
  /\ \A i \in 1..Len(pending) :
       pending[i].waited + pending[i].remaining = DelayTicks(pending[i].written)

\* the console set the delay to 2 ms and the request that came after it was
\* answered after 2 ms
C9_Witness ==
  /\ nreq = 2
  /\ last.kind = "endpoint"
  /\ last.written = Num(2)
  /\ last.waited = 4
  /\ responseDelay = Num(2)

\* C10: the runtime delay is a non-negative integer in every reachable
\* state: a PUT /_config/delay whose delay is missing, non-numeric, negative
\* or not an integer is answered 400 and leaves the delay unchanged
C10_DelayIsNaturalNumber ==
  /\ Tag(responseDelay) = "num"
  /\ responseDelay[2] >= 0
  /\ responseDelay[3] = 0
  /\ last.kind = "putdelay" =>
       LET d == GetField(last.req.body, K_delay)
       IN (Tag(d) # "num" \/ d[2] < 0 \/ d[3] # 0) =>
            last.status = 400 /\ responseDelay = last.written


(***************************************************************************)
(* Properties of the final middleware.                                     *)
(***************************************************************************)
\* the upstream call of the latest request did not produce a response
UpstreamCallFails ==
  call.arg[2].failed \/ ~UrlParses(StripTrailingSlashes(fallbackUrl[2]))

\* C11: the final middleware answers a request only when no registered
\* route matches it; without a fallback it answers 404 {error: "Endpoint not
\* found"}, with a fallback it returns the upstream's status and body, and
\* 502 naming the target when the upstream call fails; the server keeps
\* serving
C11_FinalMiddleware ==
  last.kind = "fallback" =>
    /\ MatchingRoutes(schema, last.req) = {}
    /\ pc = "serving" /\ exit = <<>>
    /\ fallbackUrl \in {Undefined, Str(<<>>)} =>
         last.status = 404 /\ last.body = EndpointNotFoundBody
    /\ fallbackUrl \notin {Undefined, Str(<<>>)} =>
         IF UpstreamCallFails
         THEN /\ last.status = 502
              /\ GetField(last.body, K_target)
                   = Str(StripTrailingSlashes(fallbackUrl[2]) \o last.req.path)
         ELSE /\ last.status = call.arg[2].status
              /\ last.body = call.arg[2].body

\* the second request of a run is proxied to an upstream that answers 500,
\* and the 500 is relayed
C11_Witness ==
  /\ last.kind = "fallback"
  /\ last.n = 2
  /\ fallbackUrl = Str(<<"h", ":", "/", "/", "u", "/", "/">>)
  /\ last.req.method = "DELETE"
  /\ last.status = 500


(***************************************************************************)
(* Properties of the shutdown.                                             *)
(***************************************************************************)
\* the process exits 0 only when the listener has closed within 5000 ms of
\* the first signal, exits 1 only at 5000 ms, and does not run past 5000 ms
ExitsInTime ==
  /\ proc.clock <= ShutdownTimeout
  /\ exit # <<>> =>
       /\ proc.signals > 0
       /\ exit[1].code = 0 => proc.conns = <<>> /\ exit[1].at <= ShutdownTimeout
       /\ exit[1].code = 1 => exit[1].at = ShutdownTimeout
       /\ exit[1].code \in {0, 1}

\* C12: after a signal the process always exits: with status 0 when the
\* listener closes within 5000 ms of the first signal, otherwise with
\* status 1 at 5000 ms; further signals and waiting requests do not keep it
\* running
C12_ShutdownExits ==
  /\ []ExitsInTime
  /\ (proc.signals > 0) ~> (exit # <<>>)

\* a forced exit after two signals while a request still waits out its delay
C12_Witness ==
  /\ exit # <<>>
  /\ exit[1].code = 1
  /\ proc.signals = 2
  /\ \E i \in 1..Len(proc.conns) : proc.conns[i].state = "waiting"


(***************************************************************************)
(* Properties of the parser.                                               *)
(***************************************************************************)
\* the page that was parsed is one code block
OneBlockPage == call.fn = "parseERDFromHTML" /\ Len(call.arg) = 1 /\ call.arg[1].kind = "pre"

\* the complete JSON value that a block documents after a marker: the value
\* that opens at the first brace after the marker
Documented(text, marker) ==
  ParseValue(text, IndexOf(text, <<"{">>, IndexOf(ToLowerCase(text), marker, 1)))

\* the block has a method and path line, Request: and Response: followed by
\* a JSON object, and a Status: line
HasFourParts(text) ==
  /\ MatchMethodPath(text) # <<>>
  /\ MatchStatus(text) # <<>>
  /\ \A marker \in {W_request, W_response} :
       /\ IndexOf(ToLowerCase(text), marker, 1) # 0
       /\ IndexOf(text, <<"{">>, IndexOf(ToLowerCase(text), marker, 1)) # 0
       /\ Documented(text, marker).ok

\* C16: a page with one code block that holds a METHOD /path line, a
\* Request: object, a Response: object and Status: NNN yields exactly one
\* endpoint with that method, path and status, whose request and response
\* are the complete documented objects, nested objects and arrays included.
C16_BlockYieldsDocumentedObjects ==
  (OneBlockPage /\ HasFourParts(call.arg[1].text)) =>
    /\ Len(call.result.schema) = 1
    /\ call.result.schema[1].method = MatchMethodPath(call.arg[1].text)[1]
    /\ call.result.schema[1].path = MatchMethodPath(call.arg[1].text)[2]
    /\ call.result.schema[1].status = Num(CharsToNat(MatchStatus(call.arg[1].text)[1]))
    /\ call.result.schema[1].request = Documented(call.arg[1].text, W_request).v
    /\ call.result.schema[1].response = Documented(call.arg[1].text, W_response).v


\* a page was parsed
PageParsed == call.fn = "parseERDFromHTML"

\* the value of a row: the trimmed text of the cell's code element, or of
\* the cell when that is empty
RowValue(row) ==
  IF TrimSpaces(row.td[1].code) # <<>> THEN TrimSpaces(row.td[1].code)
  ELSE TrimSpaces(row.td[1].text)
\* the rows of a table with a header cell whose label contains one of words
LabelledRows(rows, words) ==
  {k \in 1..Len(rows) :
     /\ rows[k].th # <<>> /\ rows[k].td # <<>>
     /\ \E w \in words : Includes(ToLowerCase(rows[k].th[1]), w)}
UrlRows(rows) == LabelledRows(rows, {W_url, W_endpoint})
\* the method rows that name a recognised verb
VerbRows(rows) == {k \in LabelledRows(rows, {W_method}) : MatchVerb(RowValue(rows[k])) # ""}
\* the text of the last URL row up to its query string
RawPath(rows) == Split(RowValue(rows[LastIndex(UrlRows(rows))]), "?")[1]

\* the endpoint emitted for a table is the one the table documents
EndpointOfTable(e, rows) ==
  /\ e.method = MatchVerb(RowValue(rows[LastIndex(VerbRows(rows))]))
  /\ e.method \in {VerbNames[v] : v \in 1..5}
  /\ ~Includes(e.path, <<"?">>)
  /\ e.path \in {RawPath(rows), <<"/">> \o RawPath(rows)}
  /\ Includes(RawPath(rows), W_api) => e.path[1] = "/"
  /\ e.status = IF e.method = "POST" THEN Num(201) ELSE Num(200)

\* the table strategy's endpoints are the first endpoints of the schema
TablesFirst(doc, out) ==
  /\ Len(out) <= Len(call.result.schema)
  /\ SubSeq(call.result.schema, 1, Len(out)) = out

\* C15 as stated: one endpoint for each table with a URL/endpoint row and a
\* method row with a recognised verb, none for any other table.
C15_OnePerTableWithBothRows ==
  PageParsed =>
    \A i \in 1..Len(Tables(call.arg)) :
      Len(TableEndpoint(call.arg, i))
        = IF /\ UrlRows(call.arg[Tables(call.arg)[i]].rows) # {}
             /\ VerbRows(call.arg[Tables(call.arg)[i]].rows) # {}
          THEN 1 ELSE 0

\* the table has a URL/endpoint row, the path of its last one is not empty,
\* and it has a method row with a recognised verb
TableQualifies(rows) ==
  /\ UrlRows(rows) # {}
  /\ VerbRows(rows) # {}
  /\ RawPath(rows) # <<>>

\* C15: the table strategy emits exactly one endpoint for each table that
\* has a method row with a recognised verb and a URL/endpoint row whose path
\* (the last such row's text up to the query string) is not empty, and none
\* for any other table; the endpoint has the verb uppercased, no query
\* string, a leading slash when the path has api/, and status 201 for POST
\* and 200 otherwise.
C15_OnePerQualifyingTable ==
  PageParsed =>
    /\ TablesFirst(call.arg, parseTableBasedEndpoints(call.arg))
    /\ \A i \in 1..Len(Tables(call.arg)) :
         IF TableQualifies(call.arg[Tables(call.arg)[i]].rows)
         THEN /\ Len(TableEndpoint(call.arg, i)) = 1
              /\ EndpointOfTable(TableEndpoint(call.arg, i)[1],
                                 call.arg[Tables(call.arg)[i]].rows)
         ELSE TableEndpoint(call.arg, i) = <<>>

\* a table with a query string and a table with a blank URL were parsed:
\* GET /api/u with status 200 is the only endpoint
C15_Witness ==
  /\ PageParsed
  /\ call.arg = <<TableBlankUrl, TableGet>>
  /\ Len(call.result.schema) = 1
  /\ call.result.schema[1].method = "GET"
  /\ call.result.schema[1].path = <<"/", "a", "p", "i", "/", "u">>
  /\ call.result.schema[1].status = Num(200)


RECURSIVE Flatten(_, _)
\* the concatenation of the sequences parts[i], parts[i + 1], ...
Flatten(parts, i) == IF i > Len(parts) THEN <<>> ELSE parts[i] \o Flatten(parts, i + 1)

\* the i-th table of a page with what follows it up to the next table
TableSegment(doc, i) ==
  SubSeq(doc, Tables(doc)[i],
         IF i < Len(Tables(doc)) THEN Tables(doc)[i + 1] - 1 ELSE Len(doc))

\* what each table (with its own literal blocks) and each element's code
\* yields when it is parsed alone, tables first
ParsedAlone(doc) ==
  Flatten([i \in 1..Len(Tables(doc)) |->
             parseTableBasedEndpoints(TableSegment(doc, i))], 1)
    \o Flatten([k \in 1..Len(doc) |-> CodeEndpointsFrom(CodeTextsFrom(<<doc[k]>>, 1), 1)], 1)

\* the block has a method and path line and, after Response:, no JSON value
BadResponseBlock(text) ==
  /\ MatchMethodPath(text) # <<>>
  /\ IndexOf(ToLowerCase(text), W_response, 1) # 0
  /\ IndexOf(text, <<"{">>, IndexOf(ToLowerCase(text), W_response, 1)) # 0
  /\ ~Documented(text, W_response).ok

\* what the element at position k alone yields
YieldOf(doc, k) == parseERDFromHTML(<<doc[k]>>)

\* C17: parsing a page never fails: a table without path or method and a
\* code block without a method and path line yield no endpoint, a code block
\* whose Response: text is not JSON yields an endpoint with response {}, and
\* the schema is the endpoints of the tables and blocks each parsed on its
\* own; validateSchema fails exactly on the empty schema and leaves the
\* schema as parsed.
C17_BadPartsAreSkipped ==
  PageParsed =>
    /\ call.result.schema = ParsedAlone(call.arg)
    /\ call.result.schema = parseERDFromHTML(call.arg)
    /\ call.result.threw <=> (call.result.schema = <<>>)
    /\ \A k \in 1..Len(call.arg) :
         /\ (call.arg[k].kind = "table" /\ ~TableQualifies(call.arg[k].rows))
              => YieldOf(call.arg, k) = <<>>
         /\ (call.arg[k].kind = "pre" /\ MatchMethodPath(call.arg[k].text) = <<>>)
              => YieldOf(call.arg, k) = <<>>
         /\ (call.arg[k].kind = "pre" /\ BadResponseBlock(call.arg[k].text))
              => /\ Len(YieldOf(call.arg, k)) = 1
                 /\ YieldOf(call.arg, k)[1].response = EmptyObj

\* a block that is not JSON was parsed before a good one: both endpoints are
\* in the schema, the first with response {}
C17_Witness ==
  /\ PageParsed
  /\ call.arg = <<Pre(BlockBadJson), Pre(BlockFlat)>>
  /\ Len(call.result.schema) = 2
  /\ call.result.schema[1].response = EmptyObj
  /\ call.result.schema[2].path = <<"/", "c">>
  /\ ~call.result.threw


(***************************************************************************)
(* Properties of the path functions and of the generator.                  *)
(***************************************************************************)
\* C18: for a documented path whose placeholders are in brace form,
\* convertPathParams followed by the rebuilding of /health gives the
\* documented path again, wherever the placeholders stand.
C18_ExampleIsDocumentedPath ==
  (/\ call.fn = "examplePath"
   /\ Includes(call.arg, <<"{">>)
   /\ ~Includes(call.arg, <<":">>))
    => call.result.example = call.arg

\* the segments of the path that are no placeholders
PlainSegments(segments) ==
  {i \in 1..Len(segments) : segments[i] = <<>> \/ segments[i][1] \notin {"{", ":"}}

\* C19: the collection key of a path is its last segment that does not
\* start with { or :, and the path itself when every segment is a
\* placeholder.
C19_LastPlainSegment ==
  call.fn = "extractCollectionKey" =>
    call.result = IF PlainSegments(call.arg.segments) = {} THEN call.arg.path
                  ELSE call.arg.segments[LastIndex(PlainSegments(call.arg.segments))]

\* the key of /users/{id}/posts is posts, that of /users/:id is users and
\* that of /{id}/:id is the path
C19_Witness ==
  \/ /\ call.fn = "extractCollectionKey"
     /\ call.arg.segments = <<K_users, <<"{", "i", "d", "}">>, <<"p", "o", "s", "t", "s">>>>
     /\ call.result = <<"p", "o", "s", "t", "s">>
  \/ /\ call.fn = "extractCollectionKey"
     /\ call.arg.segments = <<<<"{", "i", "d", "}">>, <<":", "i", "d">>>>
     /\ call.result = call.arg.path

RECURSIVE SameShape(_, _)
\* v has the shape of template at every depth
SameShape(template, v) ==
  CASE Tag(template) \in {"null", "undef"} -> v = template
    [] Tag(template) = "arr" ->
         /\ Tag(v) = "arr"
         /\ IF template[2] = <<>> THEN v[2] = <<>>
            ELSE /\ Len(v[2]) \in {2, 3}
                 /\ \A i \in 1..Len(v[2]) : SameShape(template[2][1], v[2][i])
    [] Tag(template) = "obj" ->
         /\ Tag(v) = "obj"
         /\ Len(v[2]) = Len(template[2])
         /\ \A i \in 1..Len(v[2]) :
              /\ v[2][i][1] = template[2][i][1]
              /\ SameShape(template[2][i][2], v[2][i][2])
    [] OTHER -> Tag(v) \notin {"null", "undef", "arr", "obj"}

ServerStarted == pc \in {"seeding", "crashed", "serving", "listen failed"}
\* the run has the step in its trace
Did(step) == \E i \in 1..Len(cli.trace) : cli.trace[i] = step
\* the trace of a run begins with the steps
BeginsWith(steps) ==
  Len(cli.trace) >= Len(steps) /\ SubSeq(cli.trace, 1, Len(steps)) = steps
ExitedNonZero == exit # <<>> /\ exit[1].code # 0

\* C13: the server is started only after the options were found valid, the
\* page was fetched and the schema was found not empty, in this order; an
\* invalid port or delay exits non-zero before any fetch; a failed fetch and
\* an empty schema exit non-zero and no listener is opened.
C13_StartsAfterChecks ==
  /\ ServerStarted =>
       /\ BeginsWith(<<"fetch", "page", "schema", "start">>)
       /\ ~InvalidPort(ParseInt(cli.port))
       /\ ~InvalidDelay(ParseInt(cli.delay))
       /\ schema # <<>>
       /\ schema = parseERDFromHTML(cli.page)
  /\ (cli.step # "none" /\ (InvalidPort(ParseInt(cli.port)) \/ InvalidDelay(ParseInt(cli.delay))))
       => /\ ~Did("fetch")
          /\ ~ServerStarted
          /\ cli.step = "exited" => ExitedNonZero
  /\ (Did("fetch failed") \/ Did("schema empty"))
       => /\ ExitedNonZero
          /\ pc = "cli"

\* a run with valid options whose page documents endpoints has a listening
\* server, and a run with an invalid delay has exited without a fetch
C13_Witness ==
  \/ /\ pc = "serving"
     /\ cli.trace = <<"fetch", "page", "schema", "start">>
     /\ cli.delay = <<"2", "5", "0">>
     /\ responseDelay = Num(250)
  \/ /\ cli.step = "exited"
     /\ cli.trace = <<"rejected">>
     /\ cli.delay = <<"-", "1">>

\* C14: every failure of a run is caught by the handler of the action and
\* exits non-zero; none is an unhandled exception or event.
C14_EveryFailureIsCaught ==
  /\ ~Did("unhandled")
  /\ (Did("fetch failed") \/ Did("schema empty") \/ Did("start failed") \/ Did("listen failed"))
       => (Did("caught") /\ ExitedNonZero)


(***************************************************************************)
(* Properties of the extraction from literal blocks.                       *)
(***************************************************************************)
\* the character at i follows an odd run of backslashes that begins at or
\* after from
Escaped(text, from, i) ==
  \E k \in 1..(i - from) :
     /\ k % 2 = 1
     /\ \A j \in (i - k)..(i - 1) : text[j] = "\\"
     /\ (i - k = from \/ text[i - k - 1] # "\\")
\* i lies inside a double-quoted string that opens at or after from
InsideString(text, from, i) ==
  Cardinality({j \in from..(i - 1) : text[j] = "\"" /\ ~Escaped(text, from, j)}) % 2 = 1
\* the positions up to i of the character c that count as braces
Braces(text, from, i, c) ==
  {j \in from..i : text[j] = c /\ ~Escaped(text, from, j) /\ ~InsideString(text, from, j)}
\* the first closing brace at which the depth is zero again, 0 if none
ClosingBrace(text, from) ==
  FirstIndex({i \in from..Len(text) :
                /\ i \in Braces(text, from, i, "}")
                /\ Cardinality(Braces(text, from, i, "{"))
                     = Cardinality(Braces(text, from, i, "}"))})
\* the value of a span: parsed as it is, else without its comments, else none
SpanValue(span) ==
  IF JsonParse(span).ok THEN JsonParse(span).v
  ELSE IF JsonParse(stripJSONComments(span)).ok THEN JsonParse(stripJSONComments(span)).v
  ELSE Null
\* the object that a text documents after a marker, Null when there is none
ObjectAfter(text, marker) ==
  IF IndexOf(text, marker, 1) = 0 THEN Null
  ELSE IF IndexOf(text, <<"{">>, IndexOf(text, marker, 1)) = 0 THEN Null
  ELSE IF ClosingBrace(text, IndexOf(text, <<"{">>, IndexOf(text, marker, 1))) = 0 THEN Null
  ELSE SpanValue(SubSeq(text, IndexOf(text, <<"{">>, IndexOf(text, marker, 1)),
                        ClosingBrace(text, IndexOf(text, <<"{">>, IndexOf(text, marker, 1)))))

\* C30: extractCompleteJSON takes the span from the first { after the marker
\* to the first } at which the depth of the braces outside strings is zero
\* again, and yields its value parsed strictly or after the // comments are
\* stripped; it yields no value when the marker, the brace or the closing
\* brace is missing or the span parses neither way.
C30_SpanToMatchingBrace ==
  call.fn = "extractCompleteJSON" =>
    call.result = ObjectAfter(call.arg.text, call.arg.marker)

\* an object with a brace inside a string and a comment with a brace after
\* it was extracted, and an object that is never closed gave no value
C30_Witness ==
  \/ /\ call.fn = "extractCompleteJSON"
     /\ call.arg.text = M_BodyColon \o <<"\n">> \o <<"{", "\"", "a", "\"", ":", " ", "\"", "{", "\"", "}", " ", "/", "/", " ", "}">>
     /\ call.arg.marker = M_BodyColon
     /\ call.result = Obj(<<<<<<"a">>, Str(<<"{">>)>>>>)
  \/ /\ call.fn = "extractCompleteJSON"
     /\ call.arg.text = M_BodyColon \o <<"\n">> \o <<"{", "\"", "a", "\"", ":", " ", "{", "\"", "b", "\"", ":", " ", "1", "}">>
     /\ call.arg.marker = M_BodyColon
     /\ call.result = Null


\* the request markers in the order of their priority
RequestMarkers ==
  <<M_RequestStructureColon, M_BodyColon, M_RequestBodyColon, M_RequestColon>>
\* the block carries the marker of priority p with an object after it
Carries(content, p) ==
  /\ Includes(content, RequestMarkers[p])
  /\ p = 4 => ~Includes(content, M_Response)
  /\ ObjectAfter(content, RequestMarkers[p]) # Null
\* the priorities of the markers that some block carries
CarriedPriorities(blocks) ==
  {p \in 1..4 : \E k \in 1..Len(blocks) : Carries(blocks[k], p)}
\* the object after the marker of priority p in the first block carrying it
RequestByPriority(blocks, p) ==
  ObjectAfter(blocks[FirstIndex({k \in 1..Len(blocks) : Carries(blocks[k], p)})],
              RequestMarkers[p])

\* C28: the request template of a table is chosen by the priority of the
\* markers across all its blocks: Request Structure: if any block has one,
\* else Body:, else Request Body:, else Request: in a block without
\* Response; it is absent only if no block carries a marker with an object.
C28_RequestByMarkerPriority ==
  call.fn = "extractFromAssociatedBlocks" =>
    call.result.request
      = IF CarriedPriorities(call.arg) = {} THEN Undefined
        ELSE RequestByPriority(call.arg, FirstIndex(CarriedPriorities(call.arg)))


(***************************************************************************)
(* Properties of the association of literal blocks with tables.            *)
(***************************************************************************)
\* the positions of the tables that yield an endpoint, in document order
QualifyingTables(doc) ==
  Pick([p \in 1..Len(doc) |-> p],
       {p \in 1..Len(doc) : doc[p].kind = "table" /\ TableQualifies(doc[p].rows)})
\* the literal blocks that belong to the table at position p: those after
\* it with no other table in between
RegionOf(doc, p) ==
  {j \in (p + 1)..Len(doc) :
     /\ doc[j].kind = "cdata"
     /\ \A q \in (p + 1)..(j - 1) : doc[q].kind # "table"}
\* the objects that the blocks at positions js document after the markers
ObjectsIn(doc, js, markers) ==
  {ObjectAfter(doc[j].text, m) : j \in js, m \in markers} \ {Null}

\* the endpoint e of the table at position p takes its templates from the
\* blocks of its own region only
FromOwnRegion(doc, p, e) ==
  /\ e.response \in {DefaultResponse}
       \cup ObjectsIn(doc, RegionOf(doc, p), {M_ResponseStructureColon, M_ResponseStructure})
  /\ e.request \in {Undefined}
       \cup ObjectsIn(doc, RegionOf(doc, p),
                      {M_RequestStructureColon, M_BodyColon, M_RequestBodyColon, M_RequestColon})
  /\ (\A j \in RegionOf(doc, p) : ~Includes(doc[j].text, M_ResponseStructure))
       => e.response = DefaultResponse
  /\ (\E j \in RegionOf(doc, p) : Includes(doc[j].text, M_ResponseStructure))
       => e.response # DefaultResponse

\* C29: a literal block belongs to the last table that starts before it: the
\* endpoint of a table takes its request and response only from the blocks
\* between its table and the next one (the end of the page for the last
\* table), and has the default response when none of them has a Response
\* Structure marker.
C29_BlocksOfOwnRegion ==
  call.fn = "parseTableBasedEndpoints" =>
    /\ Len(call.result) = Len(QualifyingTables(call.arg))
    /\ \A k \in 1..Len(call.result) :
         FromOwnRegion(call.arg, QualifyingTables(call.arg)[k], call.result[k])


(***************************************************************************)
(* Properties of the order in which handlers change the store.             *)
(***************************************************************************)
MutatingMethods == {"POST", "PUT", "PATCH", "DELETE"}
\* the waiting request w is a mutating request to the collection key of the
\* mutating request that the endpoint at route answers
SameKeyMutation(w, route) ==
  /\ schema[w.route].method \in MutatingMethods
  /\ schema[route].method \in MutatingMethods
  /\ extractCollectionKey(schema[w.route].path) = extractCollectionKey(schema[route].path)
\* the waiting requests that were received before the request answered in
\* this step: all of them when it was answered on arrival, those before it
\* in the queue when it woke up
ReceivedEarlier ==
  IF pending' = pending THEN {j \in 1..Len(pending) : TRUE}
  ELSE {j \in 1..Len(pending) :
          \E i \in (j + 1)..Len(pending) :
             /\ pending' = SubSeq(pending, 1, i - 1) \o SubSeq(pending, i + 1, Len(pending))
             /\ pending[i] # pending[j]}

\* C22: of two mutating requests to the same collection key, the one
\* received first changes the store first: no handler changes the store
\* while a mutating request to the same key that was received earlier is
\* still waiting, whatever the delay is and however it was changed.
C22_MutationsInArrivalOrder ==
  [][(last'.n = last.n + 1 /\ last'.kind = "endpoint" /\ store' # store)
       => \A j \in ReceivedEarlier : ~SameKeyMutation(pending[j], last'.route)]_vars


(***************************************************************************)
(* Properties of the identifiers of the records of a collection.           *)
(***************************************************************************)
\* the value of the identifier field of a record
Identifier(item) == GetField(item, IdFieldOrDefault(item))

\* C23: in every state of the store no two records of one collection have
\* identifiers with the same string form, after seeding and after every
\* sequence of adds, updates and deletes, a first POST that names its own
\* id and POST requests that sleep at the same time included.
C23_IdentifiersAreUnique ==
  \A key \in DOMAIN store :
     \A i, j \in 1..Len(store[key].items) :
        i # j => ToStringChars(Identifier(store[key].items[i]))
                   # ToStringChars(Identifier(store[key].items[j]))


(***************************************************************************)
(* Properties of the endpoints of a collection key that was not seeded.    *)
(***************************************************************************)
\* the endpoint at route is a GET endpoint without path parameters whose
\* collection key initFromSchema does not seed
UnseededGet(route) ==
  /\ schema[route].method = "GET"
  /\ ~Includes(convertPathParams(schema[route].path), <<":">>)
  /\ extractCollectionKey(schema[route].path) \notin DOMAIN initFromSchema(schema, 0).store

\* C24: a GET endpoint without path parameters whose collection key was not
\* seeded at startup answers every request with a value shaped like its own
\* response template, also after POST requests to the same collection key.
C24_UnseededGetGenerates ==
  (last.kind = "endpoint" /\ UnseededGet(last.route))
    => SameShape(schema[last.route].response, last.body)


(***************************************************************************)
(* Properties of seeding the schemas that the parser produces.             *)
(***************************************************************************)
\* C25: initFromSchema completes without raising for every schema the
\* parser produces, and every record it seeds is an object with an
\* identifier field, also when the first non-empty array of a GET response
\* holds primitives.
C25_SeedingCompletes ==
  /\ pc # "crashed"
  /\ \A key \in DOMAIN store :
        \A i \in 1..Len(store[key].items) :
           /\ IsPlainObject(store[key].items[i])
           /\ findIdField(store[key].items[i]) # Null


(***************************************************************************)
(* Properties of updates and deletes without a collection.                 *)
(***************************************************************************)
\* C26: a PUT, PATCH or DELETE endpoint whose collection key has no
\* collection in the store answers with data generated from its response
\* template, with the status of the endpoint.
C26_GeneratesWithoutCollection ==
  (/\ last.kind = "endpoint"
   /\ schema[last.route].method \in {"PUT", "PATCH", "DELETE"}
   /\ ~hasCollection(store, extractCollectionKey(schema[last.route].path)))
    => /\ last.status = EndpointStatus(schema[last.route])
       /\ SameShape(schema[last.route].response, last.body)


(***************************************************************************)
(* Properties of the upstream request of a proxied request.                *)
(***************************************************************************)
\* the number of times the parameter occurs among the parameters
Occurrences(pairs, pair) == Cardinality({i \in 1..Len(pairs) : pairs[i] = pair})
\* the two lists hold the same parameters, each as many times
SameParameters(a, b) ==
  \A pair \in {a[i] : i \in 1..Len(a)} \cup {b[i] : i \in 1..Len(b)} :
     Occurrences(a, pair) = Occurrences(b, pair)

\* C27: the upstream request of a proxied request has the original method,
\* the target <fallbackBase><originalPath>, exactly the original query
\* parameters, each as many times as in the original request, the original
\* headers with host replaced by the fallback host, and the body only for
\* methods other than GET and HEAD.
C27_UpstreamRequest ==
  (call.fn = "axios" /\ call.result # <<>>) =>
    /\ call.result[1].method = call.arg.method
    /\ OriginalPath(call.result[1].url)
         = StripTrailingSlashes(fallbackUrl[2]) \o OriginalPath(call.arg.path)
    /\ SameParameters(QueryPairs(QueryString(call.result[1].url)),
                      QueryPairs(QueryString(call.arg.path)))
    /\ call.result[1].headers
         = SetField(call.arg.headers, K_host, Str(UrlHost(StripTrailingSlashes(fallbackUrl[2]))))
    /\ call.result[1].data
         = (IF call.arg.method \in {"GET", "HEAD"} THEN Undefined ELSE call.arg.body)


(***************************************************************************)
(* Properties of the page fetcher.                                         *)
(***************************************************************************)
\* the URL qualifies for the REST mode as the specification words it: its
\* host contains the cloud suffix, both credentials are present, and a page
\* id and a base URL can be extracted
QualifiesByHost(url, email, token) ==
  /\ UrlParses(url)
  /\ Includes(UrlHostname(url), W_cloudSuffix)
  /\ Truthy(email) /\ Truthy(token)
  /\ extractPageId(url) # Null
  /\ extractBaseUrl(url) # Null
\* the mode the specification gives a call
ModeByHost(url, email, token) ==
  IF StartsWith(url, W_fileScheme) THEN "file"
  ELSE IF QualifiesByHost(url, email, token) THEN "rest"
  ELSE "direct"

\* C21: a call of the fetcher takes exactly one mode and makes at most one
\* request: the local file for a file URL, the REST API only when the host
\* of the URL contains the cloud suffix, both credentials are present and a
\* page id and a base URL can be extracted, the direct fetch otherwise; a
\* failure ends the call with one error, without retry or another mode.
C21_OneModePerCall ==
  call.fn = "fetchConfluencePage" =>
    /\ call.result.mode = ModeByHost(call.arg.url, call.arg.email, call.arg.token)
    /\ Len(call.result.reads) + Len(call.result.requests) <= 1
    /\ call.result.mode = "file" => Len(call.result.requests) = 0
    /\ call.result.done =>
         \/ call.result.outcome = "page" /\ call.result.errors = <<>>
         \/ call.result.outcome = "error" /\ Len(call.result.errors) = 1

====
